---- MODULE Spec2Model ----
(***************************************************************************)
(* The streaming parser engine of ecmac (src/src/compiler/parser.ts), the  *)
(* code-point stream that feeds it (src/src/compiler/code_point.ts) and    *)
(* the character-level tokenizer Token.parse                               *)
(* (src/src/compiler/languages/ecmascript/token.ts) and the grammar of     *)
(* statements and expressions built on the combinators maybe, fatal,       *)
(* first and furthest (src/src/compiler/languages/ecmascript.ts).          *)
(*                                                                         *)
(* One engine step of the model is one pass through the body of the while  *)
(* loop of `process`; a pass that starts a coroutine, handles its command  *)
(* and commits its result is three consecutive steps (Start, the command's *)
(* step, Commit) between which nothing else can happen.                    *)
(***************************************************************************)
EXTENDS Integers, Sequences, FiniteSets, TLC

\* ------------------------------------------------------------- bounds
MaxItems == 2      \* input items of a run of the engine over an arbitrary coroutine
MaxDepth == 1      \* nesting depth of combinators in the arbitrary coroutine
MaxSrc == 3        \* code points of a source text
MaxNest == 2       \* open combinator calls in a coroutine built with all four combinators
MaxBranches == 2   \* generators handed to one call of first or furthest
MaxText == 4       \* characters of a program handed to the syntactic stage
MaxChars == 4      \* characters of a source handed to the TokenParserStream
MaxSpecials == 3   \* characters of a source with strings, line terminators, identifiers
MaxCode == 4       \* characters of a source with template literals
MaxTokens == 2     \* tokens of a source handed to the SyntaxParserStream
MaxScript == 3     \* commands a generator handed to the SyntaxParser yields

MaxPos == MaxItems + 1

\* -------------------------------------------------- parser.ts: commands
Peek == 0
Consume == 1
Position == 2

PeekCommand == [kind |-> Peek, args |-> <<>>]
ConsumeCommand == [kind |-> Consume, args |-> <<>>]
PositionCommand(args) == [kind |-> Position, args |-> args]

\* -------------------------------------------------- parser.ts: errors
NoError == [msg |-> "none", eos |-> FALSE, fatal |-> FALSE]
EndOfParserStream == [msg |-> "EndOfParserStream", eos |-> TRUE, fatal |-> FALSE]
PlainError(msg) == [msg |-> msg, eos |-> FALSE, fatal |-> FALSE]
FatalError(msg) == [msg |-> msg, eos |-> FALSE, fatal |-> TRUE]
NoItemsError == PlainError("parser doesn't consume any items")
RemainderError == PlainError("parser was not able to completely process the input stream")

IsFatal(error) == error.fatal
IsEndOfParserStream(error) == error.eos

\* ------------------------------------------- outcomes of resuming a generator
\* (note: what a combinator of the coroutine did on the way, for the history)
Yield(gen, command) == [t |-> "yield", gen |-> gen, value |-> command, note |-> ""]
Return(value) == [t |-> "return", value |-> value, note |-> ""]
Throw(error) == [t |-> "throw", error |-> error, note |-> ""]

VARIABLES
    parser,        \* the parser the ParserStream was constructed with
    source,        \* the items the upstream delivers before it closes
    run,           \* "single": the source arrives as one chunk; "split": in any chunks
    reference,     \* what the "single" run of the same source produced
    fed,           \* how many of them it has delivered
    counters,      \* CodePointsStream: position, column, line
    phase,         \* position in the transform body
    inputBuffer,
    outputBuffer,
    cursor,
    state,
    thrown,        \* the error travelling out of the try block
    emitted,       \* the batches yielded downstream
    outcome,       \* how the readable side ended
    commits,       \* history: per commit, the result and the items spliced off
    entered,       \* history: the engine's cursor when each open maybe was entered
    window,        \* history: the items the running coroutine was given, by cursor
    eosOut,        \* history: a coroutine ended by raising EndOfParserStream
    endInFatal,    \* history: the commits made when an EndOfParserStream thrown in by the
                   \* engine left a call of ParserStream.fatal (-1: it has not)
    lastStep,      \* history: the engine step taken last
    cancelled      \* the consumer has cancelled the readable side

vars == <<parser, source, run, reference, fed, counters, phase, inputBuffer, outputBuffer, cursor,
          state, thrown, emitted, outcome, commits, entered, window, eosOut, endInFatal,
          lastStep, cancelled>>

NoState == [active |-> FALSE]
Suspended(gen, result) == [active |-> TRUE, generator |-> gen, result |-> result]

Running == state.active /\ ~state.result.done
Completed == state.active /\ state.result.done

\* ---------------------------------------- an arbitrary coroutine over the combinators
\* The coroutine may do anything a generator built on peek/consume/position and
\* ParserStream.maybe can do.  gen.frames are the open maybe calls, innermost last.
GenericErrors(g) ==
    {PlainError("error"), FatalError("fatal error")}
        \cup (IF g.heldEos THEN {EndOfParserStream} ELSE {})

RECURSIVE MaybeCatch(_, _)
\* a maybe whose catch clause asks for the position instead of restoring it
MaybeCatchWithoutRestore(g, error) ==
    IF g.frames = <<>>
    THEN Throw(error)
    ELSE IF IsFatal(error)
         THEN MaybeCatch([g EXCEPT !.frames = SubSeq(g.frames, 1, Len(g.frames) - 1)], error)
         ELSE Yield([g EXCEPT !.pc = "maybeRestore"], PositionCommand(<<>>))

\* maybe's catch clause: a fatal error is re-raised, any other makes maybe yield
\* position(initialPosition).
MaybeCatch(g, error) ==
    IF g.frames = <<>>
    THEN Throw(error)
    ELSE IF IsFatal(error)
         THEN MaybeCatch([g EXCEPT !.frames = SubSeq(g.frames, 1, Len(g.frames) - 1)], error)
         ELSE Yield([g EXCEPT !.pc = "maybeRestore"],
                    PositionCommand(<<g.frames[Len(g.frames)].initialPosition>>))

RECURSIVE GenericBody(_)
GenericBody(g) ==
    LET b == [g EXCEPT !.pc = "body"]
    IN  {Yield(b, PeekCommand), Yield(b, ConsumeCommand), Yield(b, PositionCommand(<<>>))}
        \cup {Yield(b, PositionCommand(<<c>>)) : c \in 0..MaxPos}
        \cup (IF Len(g.frames) < MaxDepth
              THEN {Yield([g EXCEPT !.pc = "maybeEnter"], PositionCommand(<<>>))}
              ELSE {})
        \cup {MaybeCatch(b, e) : e \in GenericErrors(g)}
        \cup (IF g.frames = <<>>
              THEN {Return(g.id)}
              ELSE GenericBody([b EXCEPT !.frames = SubSeq(g.frames, 1, Len(g.frames) - 1)]))

GenericStart(id) ==
    GenericBody([k |-> "generic", id |-> id, pc |-> "body", frames |-> <<>>, heldEos |-> FALSE])

GenericNext(g, result) ==
    CASE g.pc = "maybeEnter" ->
            GenericBody([g EXCEPT !.frames = Append(g.frames, [initialPosition |-> result])])
      [] g.pc = "maybeRestore" ->
            {[o EXCEPT !.note = "maybe returned null"] :
                o \in GenericBody([g EXCEPT !.frames = SubSeq(g.frames, 1, Len(g.frames) - 1)])}
      [] OTHER -> GenericBody(g)

GenericThrow(g, error) == GenericBody([g EXCEPT !.heldEos = TRUE])

\* ------------------------- coroutines built with maybe, fatal, first and furthest
\* The coroutine may do anything a generator built on peek/consume/position and the
\* four combinators can do.  gen.frames are the open combinator calls, innermost last;
\* gen.event tells what the combinators did during the resumption that is under way.
NoValue == [leaf |-> -1]
NoRet == [by |-> "", index |-> -1, position |-> -1, value |-> NoValue]
NoErr == [by |-> "", index |-> -1, error |-> NoError]
NoEvent ==
    [ret |-> NoRet, err |-> NoErr, branch |-> NoValue, inFatal |-> FALSE, null |-> FALSE,
     opened |-> FALSE]

\* furthestResult / furthestError before any branch has ended
NoBest == [position |-> -1, index |-> -1, error |-> NoError, value |-> NoValue, failed |-> FALSE]

Frame(kind, initialPosition, n) ==
    [kind |-> kind, initialPosition |-> initialPosition, index |-> 0, n |-> n,
     best |-> NoBest, pending |-> NoError, value |-> NoValue]

Top(g) == g.frames[Len(g.frames)]
Popped(g) == [g EXCEPT !.frames = SubSeq(g.frames, 1, Len(g.frames) - 1)]
Pushed1(g, frame) == [g EXCEPT !.frames = Append(g.frames, frame)]

\* a fatal that re-raises the error as it came
Unmarked(error) == error

\* error[fatalErrorTag] = true
MarkFatal(error) == [error EXCEPT !.fatal = TRUE]

\* a comparison with <= in place of <: among equals the last branch wins
FurtherOrEqual(best, candidate) == IF best.position <= candidate.position THEN candidate ELSE best

\* if ((furthest?.position ?? -1) < position) furthest = {index, position, ...}
Further(best, candidate) == IF best.position < candidate.position THEN candidate ELSE best

CombYield(gen, command) == [Yield(gen, command) EXCEPT !.note = gen.event]

\* what the generator running in the innermost frame returns when it has no result
\* of its own to tell apart: the branch it is
LeafValue(g) == [leaf |-> IF g.frames = <<>> THEN g.id ELSE Top(g).index]

\* a finally clause of furthest that leaves the cursor where the branch ended
FurthestRewindMissing(frame) == PositionCommand(<<>>)

\* furthest, in its finally clause: yield* ParserStream.position(initialPosition)
FurthestRewind(frame) == PositionCommand(<<frame.initialPosition>>)

RECURSIVE CombCatch(_, _)
RECURSIVE CombReturn(_, _)
RECURSIVE CombBody(_)

\* an error leaves the generator running in the innermost frame: the catch clauses of
\* fatal (401-411), maybe (389-396), first (359-373) and furthest (303-324)
CombCatch(g, error) ==
    IF g.frames = <<>>
    THEN [Throw(error) EXCEPT !.note = g.event]
    ELSE LET top == Top(g)
             at == Len(g.frames)
         IN  CASE top.kind = "fatal" ->
                    CombCatch([Popped(g) EXCEPT !.event.inFatal = TRUE], MarkFatal(error))
               [] top.kind = "maybe" ->
                    IF IsFatal(error)
                    THEN CombCatch(Popped(g), error)
                    ELSE CombYield([g EXCEPT !.pc = "maybeRestore"],
                                   PositionCommand(<<top.initialPosition>>))
               [] top.kind = "first" ->
                    IF IsFatal(error)
                    THEN CombCatch(Popped(g), error)
                    ELSE CombYield([g EXCEPT !.pc = "firstErrorPosition",
                                             !.frames[at].pending = error],
                                   PositionCommand(<<>>))
               [] top.kind = "furthest" ->
                    IF IsFatal(error)
                    THEN CombYield([g EXCEPT !.pc = "furthestFinally",
                                             !.frames[at].pending = error],
                                   FurthestRewind(top))
                    ELSE CombYield([g EXCEPT !.pc = "furthestErrorPosition",
                                             !.frames[at].pending = error],
                                   PositionCommand(<<>>))

\* the generator running in the innermost frame returns value
CombReturn(g, value) ==
    IF g.frames = <<>>
    THEN {[Return(value) EXCEPT !.note = g.event]}
    ELSE LET top == Top(g)
             at == Len(g.frames)
             h == [g EXCEPT !.event.branch = value, !.frames[at].value = value]
         IN  CASE top.kind \in {"fatal", "maybe"} -> CombBody(Popped(g))
               [] top.kind = "first" ->
                    {CombYield([h EXCEPT !.pc = "firstValuePosition"], PositionCommand(<<>>))}
               [] top.kind = "furthest" ->
                    {CombYield([h EXCEPT !.pc = "furthestValuePosition"], PositionCommand(<<>>))}

\* the code of the generator running in the innermost frame, from where it stands
\* (it calls fatal, which yields nothing on entry, at most once between two commands)
CombBody(g) ==
    LET b == [g EXCEPT !.pc = "body"]
        index == IF g.frames = <<>> THEN -1 ELSE Top(g).index
    IN  {CombYield(b, PeekCommand), CombYield(b, ConsumeCommand)}
        \cup (IF Len(g.frames) < MaxNest
              THEN {CombYield([g EXCEPT !.pc = "maybeEnter"], PositionCommand(<<>>))}
                   \cup {CombYield([g EXCEPT !.pc = "firstEnter", !.arity = n],
                                   PositionCommand(<<>>)) : n \in 1..MaxBranches}
                   \cup {CombYield([g EXCEPT !.pc = "furthestEnter", !.arity = n],
                                   PositionCommand(<<>>)) : n \in 1..MaxBranches}
              ELSE {})
        \cup (IF Len(g.frames) < MaxNest /\ ~g.event.opened
              THEN CombBody([Pushed1(b, Frame("fatal", -1, 1)) EXCEPT !.event.opened = TRUE])
              ELSE {})
        \cup {CombCatch([b EXCEPT !.event.err = [by |-> "leaf", index |-> index, error |-> e]], e) :
                e \in {PlainError("error"), FatalError("fatal error")}}
        \cup CombReturn(b, LeafValue(b))

NewComb(id) ==
    [k |-> "comb", id |-> id, pc |-> "body", frames |-> <<>>, arity |-> 0, event |-> NoEvent]

CombStart(id) == CombBody(NewComb(id))

\* first and furthest with a final position(initialPosition) after the last branch
NextBranchRestoringEntry(g, final) ==
    LET top == Top(g)
        at == Len(g.frames)
    IN  IF top.index + 1 < top.n
        THEN CombBody([g EXCEPT !.frames[at].index = top.index + 1,
                                !.frames[at].pending = NoError,
                                !.frames[at].value = NoValue])
        ELSE {CombYield([g EXCEPT !.pc = final], PositionCommand(<<top.initialPosition>>))}

\* the branch of first or furthest that ended is followed by the next one, or by the
\* final position(furthest.position)
NextBranch(g, final) ==
    LET top == Top(g)
        at == Len(g.frames)
    IN  IF top.index + 1 < top.n
        THEN CombBody([g EXCEPT !.frames[at].index = top.index + 1,
                                !.frames[at].pending = NoError,
                                !.frames[at].value = NoValue])
        ELSE {CombYield([g EXCEPT !.pc = final], PositionCommand(<<top.best.position>>))}

\* a catch clause of first that leaves the cursor where the branch failed
FirstRewindMissing(frame) == PositionCommand(<<>>)

\* first, at the end of its catch clause: yield* ParserStream.position(initialPosition)
FirstRewind(frame) == PositionCommand(<<frame.initialPosition>>)

\* generator.next(command): result is command.result
CombNext(suspended, result) ==
    LET g == [suspended EXCEPT !.event = NoEvent]
        top == Top(g)
        at == Len(g.frames)
    IN  CASE g.pc = "body" -> CombBody(g)
          [] g.pc = "maybeEnter" -> CombBody(Pushed1(g, Frame("maybe", result, 1)))
          [] g.pc = "maybeRestore" -> CombBody([Popped(g) EXCEPT !.event.null = TRUE])
          [] g.pc = "firstEnter" -> CombBody(Pushed1(g, Frame("first", result, g.arity)))
          [] g.pc = "furthestEnter" -> CombBody(Pushed1(g, Frame("furthest", result, g.arity)))
          [] g.pc = "firstValuePosition" ->
                LET ret == [by |-> "first", index |-> top.index, position |-> result,
                            value |-> top.value]
                IN  CombReturn([Popped(g) EXCEPT !.event.ret = ret], LeafValue(Popped(g)))
          [] g.pc = "firstErrorPosition" ->
                LET candidate == [position |-> result, index |-> top.index,
                                  error |-> top.pending, value |-> NoValue, failed |-> TRUE]
                IN  {CombYield([g EXCEPT !.pc = "firstRewind",
                                         !.frames[at].best = Further(top.best, candidate)],
                               FirstRewind(top))}
          [] g.pc = "firstRewind" -> NextBranch(g, "firstFinal")
          [] g.pc = "firstFinal" ->
                {CombCatch([Popped(g) EXCEPT !.event.err =
                                [by |-> "first", index |-> top.best.index, error |-> top.best.error]],
                           top.best.error)}
          [] g.pc = "furthestValuePosition" ->
                LET candidate == [position |-> result, index |-> top.index,
                                  error |-> NoError, value |-> top.value, failed |-> FALSE]
                IN  {CombYield([g EXCEPT !.pc = "furthestFinally",
                                         !.frames[at].best = Further(top.best, candidate)],
                               FurthestRewind(top))}
          [] g.pc = "furthestErrorPosition" ->
                LET candidate == [position |-> result, index |-> top.index,
                                  error |-> top.pending, value |-> NoValue, failed |-> TRUE]
                IN  {CombYield([g EXCEPT !.pc = "furthestFinally",
                                         !.frames[at].best = Further(top.best, candidate),
                                         !.frames[at].pending = NoError],
                               FurthestRewind(top))}
          [] g.pc = "furthestFinally" ->
                IF top.pending # NoError
                THEN {CombCatch(Popped(g), top.pending)}
                ELSE NextBranch(g, "furthestFinal")
          [] g.pc = "furthestFinal" ->
                IF top.best.failed
                THEN {CombCatch([Popped(g) EXCEPT !.event.err =
                                    [by |-> "furthest", index |-> top.best.index,
                                     error |-> top.best.error]],
                                top.best.error)}
                ELSE LET ret == [by |-> "furthest", index |-> top.best.index,
                                 position |-> top.best.position, value |-> top.best.value]
                     IN  CombReturn([Popped(g) EXCEPT !.event.ret = ret], LeafValue(Popped(g)))

\* generator.throw(new EndOfParserStream()) at a peek or consume: tryPeek and
\* tryConsume answer null and the code goes on, peek and consume let the error through
CombThrow(suspended, error) ==
    LET g == [suspended EXCEPT !.event = NoEvent]
        index == IF g.frames = <<>> THEN -1 ELSE Top(g).index
    IN  CombBody(g)
        \cup {CombCatch([g EXCEPT !.event.err = [by |-> "leaf", index |-> index, error |-> error]],
                        error)}

\* ------------------------------------------------------ code_point.ts
Cursor(position, column, line) == [position |-> position, column |-> column, line |-> line]
Span(begin, end) == [begin |-> begin, end |-> end]
CodePoint(codePoint, span) == [codePoint |-> codePoint, span |-> span]

\* a Span.around that keeps the first span whatever the last is
SpanAroundFirst(first, last) == first

\* Span.around(first, last)
SpanAround(first, last) == Span(first.begin, last.end)

\* counters that take a carriage return for a line break as well
AdvanceOnAnyLineBreak(c, codePoint) ==
    IF codePoint \notin {10, 13}
    THEN Cursor(c.position + 1, c.column + 1, c.line)
    ELSE Cursor(c.position + 1, 0, c.line + 1)

\* the body of the Array.from callback: the counters after one character
Advance(c, codePoint) ==
    IF codePoint # 10
    THEN Cursor(c.position + 1, c.column + 1, c.line)
    ELSE Cursor(c.position + 1, 0, c.line + 1)

\* Array.from(chunk, character => new CodePoint(...)) with the counters at c
RECURSIVE CodePointsFrom(_, _)
CodePointsFrom(chunk, c) ==
    IF chunk = <<>>
    THEN <<>>
    ELSE <<CodePoint(Head(chunk), Span(c, Advance(c, Head(chunk))))>>
            \o CodePointsFrom(Tail(chunk), Advance(c, Head(chunk)))

RECURSIVE CountersAfter(_, _)
CountersAfter(chunk, c) ==
    IF chunk = <<>> THEN c ELSE CountersAfter(Tail(chunk), Advance(c, Head(chunk)))

\* ------------------------------------------------------ token.ts
Null == CodePoint(-1, Span(Cursor(-1, -1, -1), Cursor(-1, -1, -1)))

isQuotationMark(c) == c # Null /\ c.codePoint = 34
isApostrophe(c) == c # Null /\ c.codePoint = 39
isLineFeed(c) == c # Null /\ c.codePoint = 10
isCarriageReturn(c) == c # Null /\ c.codePoint = 13
isDollarSign(c) == c # Null /\ c.codePoint = 36
isLowLine(c) == c # Null /\ c.codePoint = 95
isFullStop(c) == c # Null /\ c.codePoint = 46
isLeftParenthesis(c) == c # Null /\ c.codePoint = 40
isRightParenthesis(c) == c # Null /\ c.codePoint = 41
isSemicolon(c) == c # Null /\ c.codePoint = 59
isComma(c) == c # Null /\ c.codePoint = 44
isSpace(c) == c # Null /\ c.codePoint = 32
isWhitespace(c) == c # Null /\ (isSpace(c) \/ c.codePoint = 9)
isDigit(c) == c # Null /\ (c.codePoint >= 48 /\ c.codePoint <= 57)
isAlphabet(c) ==
    c # Null /\ (\/ (c.codePoint >= 65 /\ c.codePoint <= 90)
                 \/ (c.codePoint >= 97 /\ c.codePoint <= 122))
isIdentifierStart(c) == c # Null /\ (isDollarSign(c) \/ isAlphabet(c) \/ isLowLine(c))
isIdentifierPart(c) == c # Null /\ (isIdentifierStart(c) \/ isDigit(c))

\* a token built from its initial code point alone
TokenOfInitial(kind, codePoints) ==
    [kind |-> kind,
     payload |-> <<codePoints[1].codePoint>>,
     span |-> SpanAround(codePoints[1].span, codePoints[Len(codePoints)].span)]

\* new XToken(...codePoints)
Token(kind, codePoints) ==
    [kind |-> kind,
     payload |-> [i \in 1..Len(codePoints) |-> codePoints[i].codePoint],
     span |-> SpanAround(codePoints[1].span, codePoints[Len(codePoints)].span)]

\* Token.parse from `if (isLineFeed(initialCodePoint))` of lineTerminator on:
\* lineTerminator ?? whitespace ?? punctuator ?? identifier ?? string ?? unknown
TokenChain(g) ==
    LET initial == g.initialCodePoint
        first == [g EXCEPT !.codePoints = <<initial>>]
    IN  IF isLineFeed(initial)
        THEN Return(Token("LineTerminatorToken", <<initial>>))
        ELSE IF isWhitespace(initial)
        THEN Yield([first EXCEPT !.pc = "whitespacePeek"], PeekCommand)
        ELSE IF \/ isComma(initial) \/ isFullStop(initial) \/ isSemicolon(initial)
                \/ isLeftParenthesis(initial) \/ isRightParenthesis(initial)
        THEN Return(Token("PunctuatorToken", <<initial>>))
        ELSE IF isIdentifierStart(initial)
        THEN Yield([first EXCEPT !.pc = "identifierPeek"], PeekCommand)
        ELSE IF isQuotationMark(initial) \/ isApostrophe(initial)
        THEN Yield([first EXCEPT !.pc = "stringConsume"], ConsumeCommand)
        ELSE Return(Token("UnknownToken", <<initial>>))

TokenStart ==
    Yield([k |-> "token", pc |-> "initial", initialCodePoint |-> Null,
           codePoints |-> <<>>, cursor |-> 0], ConsumeCommand)

\* the generator of Token.parse, suspended at g.pc, receives `result`
\* (Null where tryPeek/tryConsume turned the end of the stream into null)
TokenNext(g, result) ==
    CASE g.pc = "initial" ->
            IF isCarriageReturn(result)
            THEN Yield([g EXCEPT !.initialCodePoint = result, !.pc = "lineTerminatorPosition"],
                       PositionCommand(<<>>))
            ELSE TokenChain([g EXCEPT !.initialCodePoint = result])
      [] g.pc = "lineTerminatorPosition" ->
            Yield([g EXCEPT !.cursor = result, !.pc = "lineTerminatorConsume"], ConsumeCommand)
      [] g.pc = "lineTerminatorConsume" ->
            IF isLineFeed(result)
            THEN Return(Token("LineTerminatorToken", <<g.initialCodePoint, result>>))
            ELSE Yield([g EXCEPT !.pc = "lineTerminatorRestore"], PositionCommand(<<g.cursor>>))
      [] g.pc = "lineTerminatorRestore" -> TokenChain(g)
      [] g.pc = "whitespacePeek" ->
            IF isWhitespace(result)
            THEN Yield([g EXCEPT !.pc = "whitespaceConsume"], ConsumeCommand)
            ELSE Return(Token("WhitespaceToken", g.codePoints))
      [] g.pc = "whitespaceConsume" ->
            Yield([g EXCEPT !.codePoints = Append(g.codePoints, result), !.pc = "whitespacePeek"],
                  PeekCommand)
      [] g.pc = "identifierPeek" ->
            IF isIdentifierPart(result)
            THEN Yield([g EXCEPT !.pc = "identifierConsume"], ConsumeCommand)
            ELSE Return(Token("IdentifierToken", g.codePoints))
      [] g.pc = "identifierConsume" ->
            Yield([g EXCEPT !.codePoints = Append(g.codePoints, result), !.pc = "identifierPeek"],
                  PeekCommand)
      [] g.pc = "stringConsume" ->
            IF isLineFeed(result) \/ result = Null
            THEN Throw(PlainError("Unclosed string literal"))
            ELSE IF result.codePoint = g.initialCodePoint.codePoint
                 THEN Return(Token("StringToken", Append(g.codePoints, result)))
                 ELSE Yield([g EXCEPT !.codePoints = Append(g.codePoints, result)], ConsumeCommand)

\* the engine throws into the generator: tryPeek and tryConsume answer null,
\* peek and consume let the error through
TokenThrow(g, error) ==
    IF g.pc \in {"lineTerminatorConsume", "whitespacePeek", "identifierPeek", "stringConsume"}
    THEN TokenNext(g, Null)
    ELSE Throw(error)

\* ------------------------------------------------------ ecmascript.ts: syntax tree
\* the URL the CodePointsStream was constructed with
sourceHref == "<source-url>"

\* Cursor[customInspect]()
Inspect(c) == sourceHref \o ":" \o ToString(c.line + 1) \o ":" \o ToString(c.column + 1)

\* null, and a parameter that was not passed
NullResult == [kind |-> "null"]
Undefined == <<>>

IdentifierNode(token) == [kind |-> "IdentifierNode", token |-> token]
StringLiteralNode(token) == [kind |-> "StringLiteralNode", token |-> token]
MemberExpressionNode(object, dotToken, identifierToken) ==
    [kind |-> "MemberExpressionNode", object |-> object, dotToken |-> dotToken,
     identifierToken |-> identifierToken]
ArgumentNode(expressionNode, commaToken) ==
    [kind |-> "ArgumentNode", expressionNode |-> expressionNode, commaToken |-> commaToken]
\* a call node that keeps the opening parenthesis in the place of the closing one
CallExpressionNodeClosedByOpening(calleeExpressionNode, leftParenthesisToken, argumentNodes, closing) ==
    [kind |-> "CallExpressionNode", calleeExpressionNode |-> calleeExpressionNode,
     leftParenthesisToken |-> leftParenthesisToken, argumentNodes |-> argumentNodes,
     rightParenthesisToken |-> leftParenthesisToken]

CallExpressionNode(calleeExpressionNode, leftParenthesisToken, argumentNodes, closing) ==
    [kind |-> "CallExpressionNode", calleeExpressionNode |-> calleeExpressionNode,
     leftParenthesisToken |-> leftParenthesisToken, argumentNodes |-> argumentNodes,
     rightParenthesisToken |-> closing]
ExpressionStatementNode(expression, semicolonToken) ==
    [kind |-> "ExpressionStatementNode", expression |-> expression,
     semicolonToken |-> semicolonToken]

\* a generator that has not started yet: X.parse(node), XToken.consume(payload),
\* ParserStream.null(), ParserStream.first/maybe/fatal(...generators)
Parse(prod, node) ==
    [prod |-> prod, node |-> node, class |-> "", payload |-> Undefined, generators |-> <<>>]
TokenConsume(class, payload) ==
    [prod |-> "Token.consume", node |-> NullResult, class |-> class, payload |-> payload,
     generators |-> <<>>]
ParserStreamNull == Parse("null", NullResult)
Combinator(kind, generators) ==
    [prod |-> kind, node |-> NullResult, class |-> "", payload |-> Undefined,
     generators |-> generators]

\* the static blocks: which classes registered themselves where, in order
primaryDerivedClasses == <<"PrimaryExpressionNode">>
leftHandDerivedClasses == <<"LeftHandExpressionNode">>
derivedClasses(class) ==
    CASE class = "PrimaryExpressionNode" -> <<"IdentifierNode", "LiteralExpressionNode">>
      [] class = "LiteralExpressionNode" -> <<"StringLiteralNode">>
      [] class = "LeftHandExpressionNode" -> <<"MemberExpressionNode", "CallExpressionNode">>
      [] class = "StatementNode" -> <<"ExpressionStatementNode">>

\* classes.map(derivedClass => derivedClass.parse(node))
Generators(classes, node) == [i \in 1..Len(classes) |-> Parse(classes[i], node)]

\* LeftHandExpressionNode.parse: first(...derivedClasses.map(c => c.parse(node)))
LeftHand(node) ==
    Combinator("first", Generators(derivedClasses("LeftHandExpressionNode"), node))

\* a modifier loop that keeps the expression it had
KeepingPrimary(expression, leftHandedExpression) == expression

\* ExpressionNode.parse: expression = leftHandedExpression
Wrapping(expression, leftHandedExpression) == leftHandedExpression

\* a statement that does not look for the semicolon
SemicolonNever == ParserStreamNull

\* ParserStream.maybe(PunctuatorToken.consume(";"))
Semicolon == Combinator("maybe", <<TokenConsume("PunctuatorToken", <<59>>)>>)

\* a diagnostic that points at the begin of the last token
ExpectedAtBegin(lastToken) ==
    FatalError(Inspect(lastToken.span.begin) \o
               (IF lastToken.kind # "PunctuatorToken" /\ lastToken.payload = <<44>>
                THEN ": , or ) expected"
                ELSE ": Expression or ) expected"))

\* CallExpressionNode.parse, the two throw statements of the catch clause
Expected(lastToken) ==
    FatalError(Inspect(lastToken.span.end) \o
               (IF lastToken.kind # "PunctuatorToken" /\ lastToken.payload = <<44>>
                THEN ": , or ) expected"
                ELSE ": Expression or ) expected"))

\* the generator functions in progress, outermost first; each waits for the generator
\* it delegates to (yield*) or for the answer to a command of its own
SynFrame(kind, pc, node, generators) ==
    [kind |-> kind, pc |-> pc, node |-> node, generators |-> generators,
     initialPosition |-> -1, index |-> 0, best |-> NoBest, pending |-> NoError,
     value |-> NullResult, parts |-> <<>>, arguments |-> <<>>,
     class |-> "", payload |-> Undefined]

SynTop(g, frame) == [g EXCEPT !.frames[Len(g.frames)] = frame]
SynYield(g, pc, command) ==
    Yield([SynTop(g, [Top(g) EXCEPT !.pc = pc]) EXCEPT !.pc = Top(g).kind \o "." \o pc],
          command)

\* an argument list that takes another argument after one without comma
ArgumentAlways(argumentNodes) ==
    <<TokenConsume("PunctuatorToken", <<41>>), Parse("ArgumentNode", NullResult)>>

\* the generators CallExpressionNode.parse hands to first for the next argument
ArgumentOrEnd(argumentNodes) ==
    IF \/ argumentNodes = <<>>
       \/ argumentNodes[Len(argumentNodes)].commaToken # NullResult
    THEN <<TokenConsume("PunctuatorToken", <<41>>), Parse("ArgumentNode", NullResult)>>
    ELSE <<TokenConsume("PunctuatorToken", <<41>>)>>

RECURSIVE SynInvoke(_, _)
RECURSIVE SynReturn(_, _)
RECURSIVE SynRaise(_, _)

\* yield* of a generator that has not started: it runs to its first command
SynInvoke(g, call) ==
    LET in(pc) == Pushed1(g, SynFrame(call.prod, pc, call.node, call.generators))
    IN  CASE call.prod = "null" -> SynReturn(g, NullResult)
          [] call.prod = "Token.consume" ->
                SynYield(Pushed1(g, [SynFrame(call.prod, "peek", NullResult, <<>>)
                                        EXCEPT !.class = call.class, !.payload = call.payload]),
                         "peek", PeekCommand)
          [] call.prod \in {"first", "maybe"} ->
                SynYield(in("initialPosition"), "initialPosition", PositionCommand(<<>>))
          [] call.prod = "fatal" -> SynInvoke(in("generator"), call.generators[1])
          [] call.prod \in {"StatementNode", "PrimaryExpressionNode", "LiteralExpressionNode"} ->
                SynInvoke(in("first"),
                          Combinator("first", Generators(derivedClasses(call.prod), NullResult)))
          [] call.prod = "LeftHandExpressionNode" -> SynInvoke(in("first"), LeftHand(call.node))
          [] call.prod = "ExpressionNode" ->
                SynInvoke(in("primary"),
                          Combinator("first", Generators(primaryDerivedClasses, NullResult)))
          [] call.prod \in {"ExpressionStatementNode", "ArgumentNode"} ->
                SynInvoke(in("expression"), Parse("ExpressionNode", NullResult))
          [] call.prod = "IdentifierNode" ->
                SynInvoke(in("token"), TokenConsume("IdentifierToken", Undefined))
          [] call.prod = "StringLiteralNode" ->
                SynInvoke(in("token"), TokenConsume("StringToken", Undefined))
          [] call.prod = "MemberExpressionNode" ->
                SynInvoke(in("dot"), TokenConsume("PunctuatorToken", <<46>>))
          [] call.prod = "CallExpressionNode" ->
                SynInvoke(in("leftParenthesis"), TokenConsume("PunctuatorToken", <<40>>))

\* the generator the innermost frame delegates to has returned `value`
SynReturn(g, value) ==
    IF g.frames = <<>>
    THEN Return(value)
    ELSE
    LET f == Top(g)
        up == Popped(g)
        modifiers(node) ==
            SynInvoke(SynTop(g, [f EXCEPT !.pc = "leftHand", !.node = node]),
                      Combinator("first", Generators(leftHandDerivedClasses, node)
                                            \o <<ParserStreamNull>>))
        argument(argumentNodes) ==
            SynInvoke(SynTop(g, [f EXCEPT !.pc = "argument", !.arguments = argumentNodes,
                                          !.parts = IF f.pc = "leftParenthesis"
                                                    THEN <<value>> ELSE @]),
                      Combinator("fatal",
                                 <<Combinator("first", ArgumentOrEnd(argumentNodes))>>))
    IN  CASE f.kind = "first" ->
                SynYield(SynTop(g, [f EXCEPT !.value = value]), "valuePosition",
                         PositionCommand(<<>>))
          [] f.kind \in {"maybe", "fatal"} -> SynReturn(up, value)
          [] f.kind \in {"StatementNode", "PrimaryExpressionNode", "LiteralExpressionNode",
                         "LeftHandExpressionNode"} -> SynReturn(up, value.value)
          [] f.kind = "ExpressionNode" ->
                IF f.pc = "primary"
                THEN modifiers(value.value)
                ELSE IF value.value # NullResult
                     THEN modifiers(Wrapping(f.node, value.value))
                     ELSE SynReturn(up, f.node)
          [] f.kind = "IdentifierNode" -> SynReturn(up, IdentifierNode(value))
          [] f.kind = "StringLiteralNode" -> SynReturn(up, StringLiteralNode(value))
          [] f.kind = "MemberExpressionNode" ->
                IF f.pc = "dot"
                THEN SynInvoke(SynTop(g, [f EXCEPT !.pc = "identifier", !.parts = <<value>>]),
                               TokenConsume("IdentifierToken", Undefined))
                ELSE SynReturn(up, MemberExpressionNode(f.node, f.parts[1], value))
          [] f.kind = "ExpressionStatementNode" ->
                IF f.pc = "expression"
                THEN SynInvoke(SynTop(g, [f EXCEPT !.pc = "semicolon", !.parts = <<value>>]),
                               Semicolon)
                ELSE SynReturn(up, ExpressionStatementNode(f.parts[1], value))
          [] f.kind = "ArgumentNode" ->
                IF f.pc = "expression"
                THEN SynInvoke(SynTop(g, [f EXCEPT !.pc = "comma", !.parts = <<value>>]),
                               Combinator("maybe", <<TokenConsume("PunctuatorToken", <<44>>)>>))
                ELSE SynReturn(up, ArgumentNode(f.parts[1], value))
          [] f.kind = "CallExpressionNode" ->
                IF f.pc = "leftParenthesis"
                THEN argument(<<>>)
                ELSE IF value.value.kind = "PunctuatorToken"
                     THEN SynReturn(up, CallExpressionNode(f.node, f.parts[1], f.arguments,
                                                           value.value))
                     ELSE argument(Append(f.arguments, value.value))

\* the generator the innermost frame delegates to has thrown `error`: the catch
\* clauses of fatal, maybe, first and CallExpressionNode.parse; elsewhere it goes on
SynRaise(g, error) ==
    IF g.frames = <<>>
    THEN Throw(error)
    ELSE
    LET f == Top(g)
        up == Popped(g)
    IN  CASE f.kind = "fatal" -> SynRaise(up, MarkFatal(error))
          [] f.kind = "maybe" /\ ~IsFatal(error) ->
                SynYield(g, "restore", PositionCommand(<<f.initialPosition>>))
          [] f.kind = "first" /\ ~IsFatal(error) ->
                SynYield(SynTop(g, [f EXCEPT !.pending = error]), "errorPosition",
                         PositionCommand(<<>>))
          [] f.kind = "CallExpressionNode" /\ f.pc = "argument" ->
                SynYield(g, "catchPosition", PositionCommand(<<>>))
          [] OTHER -> SynRaise(up, error)

SynStart ==
    SynInvoke([k |-> "syn", pc |-> "", frames |-> <<>>], Parse("StatementNode", NullResult))

\* generator.next(command): the command the innermost frame yielded is answered
SynNext(g, result) ==
    LET f == Top(g)
        up == Popped(g)
        branch(index) ==
            SynInvoke(SynTop(g, [f EXCEPT !.pc = "generator", !.index = index,
                                          !.initialPosition = IF f.pc = "initialPosition"
                                                              THEN result ELSE @]),
                      f.generators[index + 1])
    IN  CASE f.kind = "Token.consume" /\ f.pc = "peek" ->
                IF /\ result.kind = f.class
                   /\ (f.payload = Undefined \/ result.payload = f.payload)
                THEN SynYield(g, "consume", ConsumeCommand)
                ELSE SynRaise(up, PlainError("reached unexpected token"))
          [] f.kind = "Token.consume" /\ f.pc = "consume" -> SynReturn(up, result)
          [] f.kind \in {"first", "maybe"} /\ f.pc = "initialPosition" -> branch(0)
          [] f.kind = "maybe" /\ f.pc = "restore" -> SynReturn(up, NullResult)
          [] f.kind = "first" /\ f.pc = "valuePosition" ->
                SynReturn(up, [index |-> f.index, position |-> result, value |-> f.value])
          [] f.kind = "first" /\ f.pc = "errorPosition" ->
                SynYield(SynTop(g, [f EXCEPT !.best =
                                        Further(@, [NoBest EXCEPT !.position = result,
                                                                  !.index = f.index,
                                                                  !.error = f.pending,
                                                                  !.failed = TRUE])]),
                         "rewind", FirstRewind(f))
          [] f.kind = "first" /\ f.pc = "rewind" ->
                IF f.index + 1 < Len(f.generators)
                THEN branch(f.index + 1)
                ELSE SynYield(g, "furthestPosition", PositionCommand(<<f.best.position>>))
          [] f.kind = "first" /\ f.pc = "furthestPosition" -> SynRaise(up, f.best.error)
          [] f.kind = "CallExpressionNode" /\ f.pc = "catchPosition" ->
                SynYield(g, "catchRewind", PositionCommand(<<result - 1>>))
          [] f.kind = "CallExpressionNode" /\ f.pc = "catchRewind" ->
                SynYield(g, "catchConsume", ConsumeCommand)
          [] f.kind = "CallExpressionNode" /\ f.pc = "catchConsume" ->
                SynRaise(up, Expected(result))

\* generator.throw(error) at a peek or a consume: none of them is inside a try
\* block of the frame that yielded it
SynThrow(g, error) == SynRaise(Popped(g), error)

\* ------------------------------------------------------ generator dispatch
ParserStart ==
    CASE parser = "generic" -> GenericStart(Len(commits) + 1)
      [] parser = "token" -> {TokenStart}
      [] parser = "comb" -> CombStart(Len(commits) + 1)
      [] parser = "statement" -> {SynStart}

GenNext(g, result) ==
    CASE g.k = "generic" -> GenericNext(g, result)
      [] g.k = "token" -> {TokenNext(g, result)}
      [] g.k = "comb" -> CombNext(g, result)
      [] g.k = "syn" -> {SynNext(g, result)}

GenThrow(g, error) ==
    CASE g.k = "generic" -> GenericThrow(g, error)
      [] g.k = "token" -> {TokenThrow(g, error)}
      [] g.k = "comb" -> CombThrow(g, error)
      [] g.k = "syn" -> {SynThrow(g, error)}

\* ------------------------------------------------------ upstream
\* a CodePointsStream that counts every chunk from the start of the source
UpstreamCountingPerChunk(chunk) ==
    IF parser = "token" THEN CodePointsFrom(chunk, Cursor(0, 0, 0)) ELSE chunk

\* what reaches the ParserStream: the code points of CodePointsStream for Token,
\* the items themselves for an arbitrary coroutine
Upstream(chunk) == IF parser = "token" THEN CodePointsFrom(chunk, counters) ELSE chunk

ChunkSizes ==
    IF run = "single"
    THEN {n \in {Len(source) - fed} : n > 0}
    ELSE 0..(Len(source) - fed)

\* the characters of the modelled sources: LF CR space " . 1 \ a
Alphabet == {10, 13, 32, 34, 46, 49, 92, 97}

\* "a\"b" : quote, a, backslash, quote, b, quote
LexSamples == {<<34, 97, 92, 34, 98, 34>>}

RECURSIVE SeqsUpTo(_, _)
SeqsUpTo(S, n) ==
    IF n = 0
    THEN {<<>>}
    ELSE LET shorter == SeqsUpTo(S, n - 1)
         IN  shorter \cup {Append(q, x) : q \in {r \in shorter : Len(r) = n - 1}, x \in S}

RECURSIVE Flatten(_)
Flatten(batches) == IF batches = <<>> THEN <<>> ELSE Head(batches) \o Flatten(Tail(batches))

NoReference == [tokens |-> <<>>, outcome |-> NoError]

\* ------------------------------------------------------ history bookkeeping
NoCommand == [kind |-> -1, args |-> <<>>]
NoOutcome == [t |-> "", note |-> ""]
\* op: the step; command, pc: the command handled and where the generator stood;
\* result: what the generator was resumed with; cursor: the cursor before the step;
\* answer, note: how the generator answered
Step(op, command, result, pc, o) ==
    [op |-> op, command |-> command, result |-> result, cursor |-> cursor, pc |-> pc,
     answer |-> o.t, note |-> o.note]
Plain(op) == Step(op, NoCommand, -1, "", NoOutcome)

\* the items handed to the running coroutine so far, by cursor (<<>>: none yet)
Seen(w, c, item) ==
    [i \in 1..(IF c + 1 > Len(w) THEN c + 1 ELSE Len(w)) |->
        IF i = c + 1 THEN <<item>> ELSE IF i <= Len(w) THEN w[i] ELSE <<>>]

Frames(g) == IF g.k = "generic" THEN g.frames ELSE <<>>

\* the open calls of first and furthest in a coroutine built with the combinators
RECURSIVE Branching(_)
Branching(frames) ==
    IF frames = <<>>
    THEN 0
    ELSE Branching(Tail(frames)) + (IF Head(frames).kind \in {"first", "furthest"} THEN 1 ELSE 0)

Larger(a, b) == IF a < b THEN b ELSE a

\* what the engine saw of each open call of first or furthest, innermost last: the
\* cursor when it was entered (start), the highest cursor since its current branch
\* began (high), the value that branch returned, and for every branch that has ended
\* the cursor at its end (at), the highest cursor it had (high), whether it returned
\* (ok) and what it returned or raised
TrailAfter(g, o) ==
    LET seen == [i \in 1..Len(entered) |-> [entered[i] EXCEPT !.high = Larger(@, cursor)]]
        last == Len(seen)
        ended(ok) == [at |-> cursor, high |-> seen[last].high, ok |-> ok,
                      value |-> IF ok THEN seen[last].returned ELSE NoValue,
                      error |-> IF ok THEN NoError ELSE seen[last].failure]
        e == CASE g.pc \in {"firstEnter", "furthestEnter"} ->
                    Append(seen, [start |-> cursor, high |-> cursor, returned |-> NoValue,
                                  failure |-> NoError, done |-> <<>>])
               [] g.pc \in {"firstErrorPosition", "furthestErrorPosition"} ->
                    [seen EXCEPT ![last].done = Append(@, ended(FALSE))]
               [] g.pc = "furthestValuePosition" ->
                    [seen EXCEPT ![last].done = Append(@, ended(TRUE))]
               [] g.pc \in {"firstRewind", "furthestFinally"} ->
                    [seen EXCEPT ![last].high = -1, ![last].returned = NoValue,
                                 ![last].failure = NoError]
               [] OTHER -> seen
        open == SubSeq(e, 1, Branching(o.gen.frames))
    IN  CASE o.gen.pc \in {"firstValuePosition", "furthestValuePosition"} ->
                [open EXCEPT ![Len(open)].returned = o.note.branch]
          [] o.gen.pc \in {"firstErrorPosition", "furthestErrorPosition"} ->
                [open EXCEPT ![Len(open)].failure = o.note.err.error]
          [] OTHER -> open

\* the open maybe calls after the generator, suspended in g, answered with o
EnteredAfter(g, o) ==
    IF o.t # "yield"
    THEN <<>>
    ELSE IF g.k = "comb"
         THEN TrailAfter(g, o)
         ELSE LET e == IF g.k = "generic" /\ g.pc = "maybeEnter"
                       THEN Append(entered, cursor)
                       ELSE entered
              IN  SubSeq(e, 1, Len(Frames(o.gen)))

\* ------------------------------------------------------ parser.ts: transform body
Fresh ==
    /\ fed = 0
    /\ phase = "await"
    /\ inputBuffer = <<>>
    /\ outputBuffer = <<>>
    /\ cursor = 0
    /\ state = NoState
    /\ thrown = NoError
    /\ emitted = <<>>
    /\ outcome = NoError
    /\ commits = <<>>
    /\ entered = <<>>
    /\ window = <<>>
    /\ eosOut = FALSE
    /\ endInFatal = -1
    /\ lastStep = Plain("init")
    /\ counters = Cursor(0, 0, 0)
    /\ cancelled = FALSE

Init ==
    /\ parser = "generic"
    /\ source \in {[i \in 1..n |-> i] : n \in 0..MaxItems}
    /\ run = "split"
    /\ reference = NoReference
    /\ Fresh

\* a ParserStream over a coroutine built with maybe, fatal, first and furthest
InitComb ==
    /\ parser = "comb"
    /\ source \in {[i \in 1..n |-> i] : n \in 0..MaxItems}
    /\ run = "split"
    /\ reference = NoReference
    /\ Fresh

\* the lexical stage: CodePointsStream piped through ParserStream(Token), first with
\* the whole source as one chunk, then again with the source split in any way
InitLex ==
    /\ parser = "token"
    /\ source \in SeqsUpTo(Alphabet, MaxSrc) \cup LexSamples
    /\ run = "single"
    /\ reference = NoReference
    /\ Fresh

env == <<parser, source, run, reference, cancelled>>
upstream == <<fed, counters>>

InLoop == phase \in {"process", "processNull"}
\* the for await loop is still reading / has seen the upstream close
SrcOpen == phase \in {"await", "process"}
EndOfInput == phase \in {"drain", "processNull"}

\* a loop that takes every call of process for the end-of-input call
LoopCondAlwaysAtEnd ==
    IF state.active
    THEN cursor <= Len(inputBuffer)
    ELSE cursor < Len(inputBuffer)

\* the while condition of process (chunk === null in the end-of-input calls)
LoopCond ==
    IF phase = "processNull" /\ state.active
    THEN cursor <= Len(inputBuffer)
    ELSE cursor < Len(inputBuffer)

\* a push that first drops the items the coroutine has already passed
PushedPastCursor(buffer, chunk) == SubSeq(buffer, cursor + 1, Len(buffer)) \o chunk

\* inputBuffer.push(...chunk)
Pushed(buffer, chunk) == buffer \o chunk

\* inputBuffer[cursor]
ItemAt(buffer, c) == buffer[c + 1]

\* cursor += 1, whatever the command
AdvancedByOne(c, kind) == c + 1

\* cursor += command.kind
Advanced(c, kind) == c + kind

\* command.args[0] || cursor
ArgOrCursorIfTruthy(args, c) == IF Len(args) > 0 /\ args[1] # 0 THEN args[1] ELSE c

\* command.args[0] ?? cursor
ArgOrCursor(args, c) == IF Len(args) > 0 THEN args[1] ELSE c

\* a commit without the check for progress
ProgressUnchecked(c) == FALSE

\* if (cursor === 0) throw ...
ConsumedNothing(c) == c = 0

\* buffer.splice(0): the committed items go, and the items behind them too
RemainingNone(buffer, n) == <<>>

\* buffer.splice(0, n): what it returns, and what it leaves in the buffer
Removed(buffer, n) == SubSeq(buffer, 1, IF n < Len(buffer) THEN n ELSE Len(buffer))
Remaining(buffer, n) == SubSeq(buffer, n + 1, Len(buffer))

\* outputBuffer after `yield outputBuffer`
Undrained(buffer) == buffer

\* outputBuffer after `yield outputBuffer.splice(0)`
Drained(buffer) == Remaining(buffer, Len(buffer))

\* the remainder check left out
NoRemainder(buffer) == FALSE

\* if (inputBuffer.length > 0) throw ...
HasRemainder(buffer) == Len(buffer) > 0

\* ParserStream(Token) over the complete code points of a source: the process loop
\* of parser.ts run to the end of input, o being what Token.parse last answered
RECURSIVE Lexed(_, _, _)
Lexed(o, buffer, c) ==
    CASE o.t = "return" ->
            LET rest == Remaining(buffer, c)
                more == IF rest = <<>>
                        THEN [tokens |-> <<>>, outcome |-> NoError]
                        ELSE Lexed(TokenStart, rest, 0)
            IN  [more EXCEPT !.tokens = <<o.value>> \o @]
      [] o.t = "throw" ->
            [tokens |-> <<>>,
             outcome |-> IF IsEndOfParserStream(o.error) THEN RemainderError ELSE o.error]
      [] o.value.kind = Position ->
            Lexed(TokenNext(o.gen, c), buffer, ArgOrCursor(o.value.args, c))
      [] c < Len(buffer) ->
            Lexed(TokenNext(o.gen, ItemAt(buffer, c)), buffer, Advanced(c, o.value.kind))
      [] OTHER ->
            Lexed(TokenThrow(o.gen, EndOfParserStream), buffer, c)

\* source text -> CodePointsStream -> ParserStream(Token)
TokensOf(text) ==
    IF text = <<>>
    THEN [tokens |-> <<>>, outcome |-> NoError]
    ELSE Lexed(TokenStart, CodePointsFrom(text, Cursor(0, 0, 0)), 0)

\* the characters of the modelled programs: a . ( ) , ; "
SynAlphabet == {97, 46, 40, 41, 44, 59, 34}

\* a.b.c, console.log("hi"), f(a, b,), f(a,b,), f(a"") and x; <LF> y
Samples ==
    {<<97, 46, 98, 46, 99>>,
     <<99, 111, 110, 115, 111, 108, 101, 46, 108, 111, 103, 40, 34, 104, 105, 34, 41>>,
     <<102, 40, 97, 44, 32, 98, 44, 41>>,
     <<102, 40, 97, 44, 98, 44, 41>>,
     <<102, 40, 97, 34, 34, 41>>,
     <<120, 59, 10, 121>>}

\* the syntactic stage: ParserStream(StatementNode) fed with the tokens the lexical
\* stage emits for a source, in chunks of any size
InitSyn ==
    /\ parser = "statement"
    /\ \E text \in SeqsUpTo(SynAlphabet, MaxText) \cup Samples :
        /\ TokensOf(text).outcome = NoError
        /\ source = TokensOf(text).tokens
    /\ run = "split"
    /\ reference = NoReference
    /\ Fresh

\* an error leaves process and the try block
Raise(error) ==
    /\ phase' = "finally"
    /\ thrown' = error

\* state.result = <what the generator answered>
Resumed(o) ==
    IF o.t = "yield"
    THEN Suspended(o.gen, [done |-> FALSE, value |-> o.value])
    ELSE Suspended(state.generator, [done |-> TRUE, value |-> o.value])

RaisedEos(o) == o.t = "throw" /\ IsEndOfParserStream(o.error)

\* the error answered by o went through the catch clause of ParserStream.fatal
LeftFatal(o) == parser = "comb" /\ o.note.inFatal /\ o.note.err.error = EndOfParserStream

\* the reason the consumer cancelled with
Cancellation == PlainError("cancelled")

\* the transform body reaches a yield with a batch after the consumer has cancelled:
\* iterator.throw(reason), queued while the body was running, is delivered there
YieldsCancelled == cancelled /\ Len(outputBuffer) > 0

\* for await (const chunk of src): yield what is buffered, then process(chunk)
ReadChunk ==
    /\ phase = "await"
    /\ ~YieldsCancelled
    /\ \E n \in ChunkSizes :
        LET chunk == SubSeq(source, fed + 1, fed + n)
        IN  /\ fed' = fed + n
            /\ inputBuffer' = Pushed(inputBuffer, Upstream(chunk))
            /\ counters' = IF parser = "token" THEN CountersAfter(chunk, counters) ELSE counters
    /\ emitted' = IF Len(outputBuffer) > 0
                  THEN Append(emitted, Removed(outputBuffer, Len(outputBuffer)))
                  ELSE emitted
    /\ outputBuffer' = IF Len(outputBuffer) > 0 THEN Drained(outputBuffer) ELSE outputBuffer
    /\ phase' = "process"
    /\ lastStep' = Plain("chunk")
    /\ UNCHANGED <<env, cursor, state, thrown, outcome, commits, entered, window, eosOut, endInFatal>>

\* the upstream closes: the for await loop ends
SrcClose ==
    /\ phase = "await"
    /\ fed = Len(source)
    /\ phase' = "drain"
    /\ lastStep' = Plain("close")
    /\ UNCHANGED <<env, upstream, inputBuffer, outputBuffer, cursor, state, thrown, emitted,
                   outcome, commits, entered, window, eosOut, endInFatal>>

\* while (true) process(null)
DrainCheckUnconditional ==
    /\ phase = "drain"
    /\ phase' = "processNull"
    /\ lastStep' = Plain("drain")
    /\ UNCHANGED <<env, upstream, inputBuffer, outputBuffer, cursor, state, thrown, emitted,
                   outcome, commits, entered, window, eosOut, endInFatal>>

\* while (state) process(null)
DrainCheck ==
    /\ phase = "drain"
    /\ phase' = IF state.active THEN "processNull" ELSE "finally"
    /\ lastStep' = Plain("drain")
    /\ UNCHANGED <<env, upstream, inputBuffer, outputBuffer, cursor, state, thrown, emitted,
                   outcome, commits, entered, window, eosOut, endInFatal>>

\* if (!state) { generator = parser(); result = generator.next(); ... }
Start ==
    /\ InLoop /\ LoopCond
    /\ ~state.active
    /\ \E o \in ParserStart :
        /\ lastStep' = Step("start", NoCommand, -1, "", o)
        /\ eosOut' = (eosOut \/ RaisedEos(o))
        /\ UNCHANGED endInFatal
        /\ CASE o.t = "yield" ->
                    /\ state' = Suspended(o.gen, [done |-> FALSE, value |-> o.value])
                    /\ UNCHANGED <<phase, thrown>>
             [] o.t = "return" ->
                    /\ Raise(NoItemsError)
                    /\ UNCHANGED state
             [] o.t = "throw" ->
                    /\ Raise(o.error)
                    /\ UNCHANGED state
    /\ entered' = <<>>
    /\ window' = <<>>
    /\ UNCHANGED <<env, upstream, inputBuffer, outputBuffer, cursor, emitted, outcome, commits>>

\* case Peek, Consume with an item under the cursor
Deliver ==
    /\ InLoop /\ LoopCond
    /\ Running
    /\ state.result.value.kind \in {Peek, Consume}
    /\ cursor < Len(inputBuffer)
    /\ LET command == state.result.value
           item == ItemAt(inputBuffer, cursor)
       IN  \E o \in GenNext(state.generator, item) :
            /\ lastStep' = Step("deliver", command, item, state.generator.pc, o)
            /\ entered' = EnteredAfter(state.generator, o)
            /\ window' = Seen(window, cursor, item)
            /\ eosOut' = (eosOut \/ RaisedEos(o))
            /\ UNCHANGED endInFatal
            /\ IF o.t = "throw"
               THEN /\ Raise(o.error)
                    /\ UNCHANGED <<state, cursor>>
               ELSE /\ state' = Resumed(o)
                    /\ cursor' = Advanced(cursor, command.kind)
                    /\ UNCHANGED <<phase, thrown>>
    /\ UNCHANGED <<env, upstream, inputBuffer, outputBuffer, emitted, outcome, commits>>

\* case Peek, Consume with the cursor at or past the end of the buffer
InjectEnd ==
    /\ InLoop /\ LoopCond
    /\ Running
    /\ state.result.value.kind \in {Peek, Consume}
    /\ cursor >= Len(inputBuffer)
    /\ \E o \in GenThrow(state.generator, EndOfParserStream) :
        /\ lastStep' = Step("inject", state.result.value, -1, state.generator.pc, o)
        /\ entered' = EnteredAfter(state.generator, o)
        /\ eosOut' = (eosOut \/ RaisedEos(o))
        /\ endInFatal' = IF LeftFatal(o) THEN Len(commits) ELSE endInFatal
        /\ IF o.t = "throw"
           THEN IF IsEndOfParserStream(o.error)
                THEN /\ state' = NoState
                     /\ UNCHANGED <<phase, thrown>>
                ELSE /\ Raise(o.error)
                     /\ UNCHANGED state
           ELSE /\ state' = Resumed(o)
                /\ UNCHANGED <<phase, thrown>>
    /\ UNCHANGED <<env, upstream, inputBuffer, outputBuffer, cursor, emitted, outcome,
                   commits, window>>

\* case Position
PositionCmd ==
    /\ InLoop /\ LoopCond
    /\ Running
    /\ state.result.value.kind = Position
    /\ LET command == state.result.value
       IN  \E o \in GenNext(state.generator, cursor) :
            /\ lastStep' = Step("position", command, cursor, state.generator.pc, o)
            /\ entered' = EnteredAfter(state.generator, o)
            /\ eosOut' = (eosOut \/ RaisedEos(o))
            /\ UNCHANGED endInFatal
            /\ cursor' = ArgOrCursor(command.args, cursor)
            /\ IF o.t = "throw"
               THEN /\ Raise(o.error)
                    /\ UNCHANGED state
               ELSE /\ state' = Resumed(o)
                    /\ UNCHANGED <<phase, thrown>>
    /\ UNCHANGED <<env, upstream, inputBuffer, outputBuffer, emitted, outcome, commits, window>>

\* a commit that leaves the cursor where the coroutine ended
CommitKeepingCursor ==
    /\ InLoop
    /\ Completed
    /\ lastStep' = Step("commit", NoCommand, -1, "", NoOutcome)
    /\ IF ConsumedNothing(cursor)
       THEN /\ Raise(NoItemsError)
            /\ UNCHANGED <<outputBuffer, inputBuffer, state, cursor, commits, entered, window>>
       ELSE /\ outputBuffer' = Append(outputBuffer, state.result.value)
            /\ inputBuffer' = Remaining(inputBuffer, cursor)
            /\ state' = NoState
            /\ commits' = Append(commits, [value |-> state.result.value,
                                           items |-> Removed(inputBuffer, cursor)])
            /\ entered' = <<>>
            /\ window' = <<>>
            /\ UNCHANGED <<phase, thrown, cursor>>
    /\ UNCHANGED <<env, upstream, emitted, outcome, eosOut, endInFatal>>

\* if (state.result.done) { ... }
Commit ==
    /\ InLoop
    /\ Completed
    /\ lastStep' = Step("commit", NoCommand, -1, "", NoOutcome)
    /\ IF ConsumedNothing(cursor)
       THEN /\ Raise(NoItemsError)
            /\ UNCHANGED <<outputBuffer, inputBuffer, state, cursor, commits, entered, window>>
       ELSE /\ outputBuffer' = Append(outputBuffer, state.result.value)
            /\ inputBuffer' = Remaining(inputBuffer, cursor)
            /\ state' = NoState
            /\ cursor' = 0
            /\ commits' = Append(commits, [value |-> state.result.value,
                                           items |-> Removed(inputBuffer, cursor)])
            /\ entered' = <<>>
            /\ window' = <<>>
            /\ UNCHANGED <<phase, thrown>>
    /\ UNCHANGED <<env, upstream, emitted, outcome, eosOut, endInFatal>>

\* the while condition of process fails: process returns
LoopExit ==
    /\ InLoop
    /\ ~Completed
    /\ ~LoopCond
    /\ phase' = IF phase = "process" THEN "await" ELSE "drain"
    /\ lastStep' = Plain("return")
    /\ UNCHANGED <<env, upstream, inputBuffer, outputBuffer, cursor, state, thrown, emitted,
                   outcome, commits, entered, window, eosOut, endInFatal>>

Done == [NoError EXCEPT !.msg = "completed"]

\* a finally clause that drops what is left in outputBuffer
FinallyWithoutYield ==
    /\ phase = "finally"
    /\ ~YieldsCancelled
    /\ outcome' = IF thrown # NoError
                  THEN thrown
                  ELSE IF HasRemainder(inputBuffer) THEN RemainderError ELSE Done
    /\ phase' = "closed"
    /\ lastStep' = Plain("finally")
    /\ UNCHANGED <<env, upstream, inputBuffer, outputBuffer, cursor, state, thrown, commits,
                   entered, window, eosOut, endInFatal, emitted>>

\* finally { yield outputBuffer }, then the error of the try block or the remainder check
Finally ==
    /\ phase = "finally"
    /\ ~YieldsCancelled
    /\ emitted' = IF Len(outputBuffer) > 0 THEN Append(emitted, outputBuffer) ELSE emitted
    /\ outcome' = IF thrown # NoError
                  THEN thrown
                  ELSE IF HasRemainder(inputBuffer) THEN RemainderError ELSE Done
    /\ phase' = "closed"
    /\ lastStep' = Plain("finally")
    /\ UNCHANGED <<env, upstream, inputBuffer, outputBuffer, cursor, state, thrown, commits,
                   entered, window, eosOut, endInFatal>>

Next ==
    \/ ReadChunk
    \/ SrcClose
    \/ DrainCheck
    \/ Start
    \/ Deliver
    \/ InjectEnd
    \/ PositionCmd
    \/ Commit
    \/ LoopExit
    \/ Finally

Spec == Init /\ [][Next]_vars

\* the consumer cancels the readable side: the ReadableStream is closed for it at once
\* and toTransformStream calls iterator.throw(reason) on the transform body, which
\* an async generator takes up only at its next yield
Cancel ==
    /\ phase # "closed"
    /\ ~cancelled
    /\ cancelled' = TRUE
    /\ lastStep' = Plain("cancel")
    /\ UNCHANGED <<parser, source, run, reference, upstream, phase, inputBuffer, outputBuffer,
                   cursor, state, thrown, emitted, outcome, commits, entered, window, eosOut,
                   endInFatal>>

\* yield outputBuffer.splice(0) (after a chunk was read) or yield outputBuffer (in the
\* finally clause) of a cancelled stream: the batch reaches no consumer, the reason is
\* thrown at the yield and leaves the body through the finally clause
YieldCancelled ==
    /\ phase \in {"await", "finally"}
    /\ YieldsCancelled
    /\ IF phase = "await"
       THEN /\ \E n \in ChunkSizes : fed' = fed + n
            /\ outputBuffer' = Drained(outputBuffer)
       ELSE UNCHANGED <<fed, outputBuffer>>
    /\ thrown' = Cancellation
    /\ outcome' = Cancellation
    /\ phase' = "closed"
    /\ lastStep' = Plain("yield cancelled")
    /\ UNCHANGED <<env, counters, inputBuffer, cursor, state, emitted, commits, entered, window,
                   eosOut, endInFatal>>

\* the lexical stage with a consumer that may cancel at any moment
InitCancel ==
    /\ parser = "token"
    /\ source \in SeqsUpTo(Alphabet, MaxSrc)
    /\ run = "split"
    /\ reference = NoReference
    /\ Fresh

NextCancel == Next \/ Cancel \/ YieldCancelled

SpecCancel == InitCancel /\ [][NextCancel]_vars

\* the same source is piped through a new pair of streams, now split in any way
Rerun ==
    /\ phase = "closed"
    /\ run = "single"
    /\ run' = "split"
    /\ reference' = [tokens |-> Flatten(emitted), outcome |-> outcome]
    /\ fed' = 0
    /\ counters' = Cursor(0, 0, 0)
    /\ phase' = "await"
    /\ inputBuffer' = <<>>
    /\ outputBuffer' = <<>>
    /\ cursor' = 0
    /\ state' = NoState
    /\ thrown' = NoError
    /\ emitted' = <<>>
    /\ outcome' = NoError
    /\ commits' = <<>>
    /\ entered' = <<>>
    /\ window' = <<>>
    /\ eosOut' = FALSE
    /\ endInFatal' = -1
    /\ lastStep' = Plain("init")
    /\ UNCHANGED <<parser, source, cancelled>>

NextLex == Next \/ Rerun

SpecLex == InitLex /\ [][NextLex]_vars

SpecComb == InitComb /\ [][Next]_vars

SpecSyn == InitSyn /\ [][Next]_vars

\* both stages of the pipeline, each over its input in any chunks.  The transform body
\* is sequential code pulled by its consumer: a step that can be taken is taken.
InitStages == InitCancel \/ InitSyn

SpecStages == InitStages /\ [][Next]_vars /\ WF_vars(Next)

\* ------------------------------------------- the character-level lexer: TokenParser
\* The character-level lexer: TokenParser drives a tokenizer coroutine that asks for
\* characters with Command.Peek and Command.Consume.  A source is a sequence of
\* characters (strings of length one); null is the character past the end.
Command == [Peek |-> 0, Consume |-> 1]
TokenKind ==
    [String |-> 16, Whitespace |-> 32, Punctuator |-> 64, Identifier |-> 128,
     LineComment |-> 256, LineTerminator |-> 32768, Unknown |-> 65536]
null == ""

\* characters outside ASCII: U+2028, U+2029, U+200C, U+200D
LS == "<LS>"
PS == "<PS>"
ZWNJ == "<ZWNJ>"
ZWJ == "<ZWJ>"

\* the character classes of ecmascript/parser.ts, over the modelled characters
\* (U+2000-U+200F of isWhitespace holds ZWNJ and ZWJ)
isWhitespaceCharacter(character) == character \in {"\t", " ", LS, PS, ZWNJ, ZWJ}
isIdentifierPartCharacter(character) == character \in {"$", "_", "a", "b", "1", ZWNJ, ZWJ}
isIdentifierStartCharacter(character) == character \in {"$", "_", "a", "b", "\\", ZWNJ, ZWJ}

\* an isLineTerminator that knows the ASCII line terminators only
isLineTerminatorAscii(character) == character \in {"\n", "\r"}

isLineTerminatorCharacter(character) == character \in {"\n", "\r", LS, PS}

\* punctuator: the cases of the switch (yield Command.Peek) that follows the consumed
\* characters; none if punctuator returns right after consuming them
Cases(consumed) ==
    CASE consumed \in {"<", ">"} -> {"=", consumed}
      [] consumed = ">>" -> {">", "="}
      [] consumed \in {"<<", ">>>", "=", "==", "!", "!=", "*", "%", "^"} -> {"="}
      [] consumed \in {"+", "-", "&", "|"} -> {consumed, "="}
      [] OTHER -> {}

\* punctuator: the cases of switch (initialCharacter)
InitialCases ==
    {"{", "}", "(", ")", "[", "]", ".", ";", ",", "~", "?", ":",
     "<", ">", "=", "!", "+", "-", "*", "%", "&", "|", "^"}

\* the tokenizer coroutine suspended at pc
Tokenizer(pc, kind, consumed) ==
    [k |-> "tokenizer", pc |-> pc, kind |-> kind, consumed |-> consumed]

\* punctuator has consumed its characters so far and yields Command.Consume for one more
PunctuatorConsume(consumed) ==
    Yield(Tokenizer(IF Cases(consumed) = {} THEN "last" ELSE "punctuatorConsume",
                    TokenKind.Punctuator, consumed),
          Command.Consume)

\* utils.manyOf(partOrStart, optionalPart): the test of the do-while loop
ManyOfPart(kind, character) ==
    CASE kind = TokenKind.Whitespace -> isWhitespaceCharacter(character)
      [] kind = TokenKind.Identifier -> isIdentifierPartCharacter(character)
      [] kind = TokenKind.LineTerminator -> isLineTerminatorCharacter(character)

\* tokenizer(initialCharacter) up to its first command: the rules in their order
tokenizerStart(initialCharacter) ==
    IF initialCharacter \in {"\"", "'"}
    THEN Yield(Tokenizer("stringConsume", TokenKind.String, initialCharacter), Command.Consume)
    ELSE IF initialCharacter \in InitialCases
    THEN PunctuatorConsume(initialCharacter)
    ELSE IF initialCharacter # null /\ isWhitespaceCharacter(initialCharacter)
    THEN Yield(Tokenizer("manyOfConsume", TokenKind.Whitespace, ""), Command.Consume)
    ELSE IF initialCharacter # null /\ isIdentifierStartCharacter(initialCharacter)
    THEN Yield(Tokenizer("manyOfConsume", TokenKind.Identifier, ""), Command.Consume)
    ELSE IF initialCharacter # null /\ isLineTerminatorCharacter(initialCharacter)
    THEN Yield(Tokenizer("manyOfConsume", TokenKind.LineTerminator, ""), Command.Consume)
    ELSE IF initialCharacter = "/"
    THEN Yield(Tokenizer("divConsume", TokenKind.Punctuator, "/"), Command.Consume)
    ELSE Yield(Tokenizer("last", TokenKind.Unknown, ""), Command.Consume)

\* generator.next(character)
tokenizerNext(g, character) ==
    CASE g.pc = "last" -> Return(g.kind)
      [] g.pc = "punctuatorConsume" -> Yield([g EXCEPT !.pc = "punctuatorPeek"], Command.Peek)
      [] g.pc = "punctuatorPeek" ->
            IF character \in Cases(g.consumed)
            THEN PunctuatorConsume(g.consumed \o character)
            ELSE Return(TokenKind.Punctuator)
      [] g.pc = "manyOfConsume" -> Yield([g EXCEPT !.pc = "manyOfPeek"], Command.Peek)
      [] g.pc = "manyOfPeek" ->
            IF ManyOfPart(g.kind, character)
            THEN Yield([g EXCEPT !.pc = "manyOfConsume"], Command.Consume)
            ELSE Return(g.kind)
      [] g.pc = "stringConsume" -> Yield([g EXCEPT !.pc = "stringPeek"], Command.Peek)
      [] g.pc = "stringPeek" ->
            IF isLineTerminatorCharacter(character)
            THEN Throw(PlainError("Unclosed string literal"))
            ELSE Yield([g EXCEPT !.pc = IF character = g.consumed
                                        THEN "last" ELSE "stringConsume"],
                       Command.Consume)
      [] g.pc = "divConsume" -> Yield([g EXCEPT !.pc = "divPeek"], Command.Peek)
      [] g.pc = "divPeek" ->
            CASE character = "/" ->
                    Yield(Tokenizer("commentConsume", TokenKind.LineComment, ""),
                          Command.Consume)
              [] character = "=" ->
                    Yield(Tokenizer("last", TokenKind.Punctuator, "/="), Command.Consume)
              [] OTHER -> Return(TokenKind.Punctuator)
      [] g.pc = "commentConsume" -> Yield([g EXCEPT !.pc = "commentPeek"], Command.Peek)
      [] g.pc = "commentPeek" ->
            IF ~isLineTerminatorCharacter(character)
            THEN Yield([g EXCEPT !.pc = "commentConsume"], Command.Consume)
            ELSE Return(TokenKind.LineComment)

\* the Token of lexical_analysis.ts: kind, payload (its characters) and span
LexicalToken(kind, payload, span) == [kind |-> kind, payload |-> payload, span |-> span]

\* payload += character: null is appended as the four characters of "null"
Appended(payload, character) ==
    IF character = null THEN payload \o <<"n", "u", "l", "l">> ELSE Append(payload, character)

\* new TokenParser(options)
TokenParser(position, column, line, parserState) ==
    [position |-> position, column |-> column, line |-> line, state |-> parserState]

\* this.#state = { generator, payload, result, begin }
Tokenizing(o, begin, payload) ==
    [active |-> TRUE,
     generator |-> IF o.t = "yield" THEN o.gen ELSE Tokenizer("", 0, ""),
     result |-> [done |-> o.t = "return", value |-> o.value],
     begin |-> begin, payload |-> payload]

\* TokenParser.parse: the loop  while (command !== Command.Consume)  for one character
RECURSIVE WhileCommand(_, _, _, _)
WhileCommand(tp, character, command, tokens) ==
    IF command = Command.Consume \/ (character = null /\ ~tp.state.active)
    THEN [tokenParser |-> tp, tokens |-> tokens, error |-> NoError]
    ELSE LET here == Cursor(tp.position, tp.column, tp.line)
             st == IF tp.state.active
                   THEN tp.state
                   ELSE Tokenizing(tokenizerStart(character), here, <<>>)
         IN  IF st.result.done
             THEN WhileCommand([tp EXCEPT !.state = NoState], character, command,
                               Append(tokens, LexicalToken(st.result.value, st.payload,
                                                           Span(st.begin, here))))
             ELSE LET o == tokenizerNext(st.generator, character)
                      payload == IF st.result.value = Command.Consume
                                 THEN Appended(st.payload, character)
                                 ELSE st.payload
                  IN  IF o.t = "throw"
                      THEN [tokenParser |-> [tp EXCEPT !.state = st], tokens |-> tokens,
                            error |-> o.error]
                      ELSE WhileCommand(
                               [tp EXCEPT !.state =
                                    [Tokenizing(o, st.begin, payload)
                                        EXCEPT !.generator = IF o.t = "yield"
                                                             THEN o.gen ELSE st.generator]],
                               character, st.result.value, tokens)

\* TokenParser.parse(sourceCode, options) from index on: the tokens it yields, the
\* parser afterwards, and the error if the tokenizer threw
RECURSIVE parse(_, _, _, _, _)
parse(tp, sourceCode, index, stream, tokens) ==
    IF index >= Len(sourceCode) + (IF stream THEN 0 ELSE 1)
    THEN [tokenParser |-> IF stream THEN TokenParser(0, 0, 0, tp.state) ELSE tp,
          tokens |-> tokens, error |-> NoError]
    ELSE LET character == IF index < Len(sourceCode) THEN sourceCode[index + 1] ELSE null
             w == WhileCommand(tp, character, Command.Peek, tokens)
             after == w.tokenParser
         IN  IF w.error # NoError
             THEN w
             ELSE parse(TokenParser(after.position + 1,
                                    IF character # "\n" THEN after.column + 1 ELSE 0,
                                    IF character # "\n" THEN after.line ELSE after.line + 1,
                                    after.state),
                        sourceCode, index + 1, stream, w.tokens)

\* the characters of the modelled sources
Characters == {">", "=", "!", "+", "/", "a"}

\* and of the sources with strings, line terminators and identifiers
Specials == {"\"", "\n", "\r", LS, "\\", ZWNJ, "a", "/"}

\* TokenParserStream: the chunks a source arrives in ("pieces": no chunk is empty)
StringChunkSizes ==
    IF run = "pieces" THEN 1..(Len(source) - fed) ELSE 0..(Len(source) - fed)

\* a TokenParserStream over the tokenizer; state is its TokenParser, inputBuffer its
\* previousString (<<>>: undefined, <<string>>: a string)
InitTokenParser ==
    /\ parser = "TokenParser"
    /\ source \in SeqsUpTo(Characters, MaxChars) \cup SeqsUpTo(Specials, MaxSpecials)
    /\ run \in {"split", "pieces"}
    /\ reference = NoReference
    /\ fed = 0
    /\ phase = "await"
    /\ inputBuffer = <<>>
    /\ outputBuffer = <<>>
    /\ cursor = 0
    /\ state = TokenParser(0, 0, 0, NoState)
    /\ thrown = NoError
    /\ emitted = <<>>
    /\ outcome = NoError
    /\ commits = <<>>
    /\ entered = <<>>
    /\ window = <<>>
    /\ eosOut = FALSE
    /\ endInFatal = -1
    /\ lastStep = Plain("init")
    /\ counters = Cursor(0, 0, 0)
    /\ cancelled = FALSE

\* if (previousString): neither undefined nor the empty string
Truthy(previousString) == previousString # <<>> /\ previousString[1] # <<>>

\* process(controller, string), up to previousString = string: what
\* tokenParser.parse(previousString, {stream: string !== undefined}) does
process(previousString, stream) ==
    IF Truthy(previousString)
    THEN parse(state, previousString[1], 0, stream, <<>>)
    ELSE [tokenParser |-> state, tokens |-> <<>>, error |-> NoError]

\* controller.enqueue(tokens) if there are any; an error of the tokenizer ends the stream
Processed(r, string) ==
    /\ state' = r.tokenParser
    /\ IF r.error # NoError
       THEN /\ thrown' = r.error
            /\ outcome' = r.error
            /\ phase' = "closed"
            /\ UNCHANGED <<emitted, inputBuffer>>
       ELSE /\ emitted' = IF r.tokens # <<>> THEN Append(emitted, r.tokens) ELSE emitted
            /\ inputBuffer' = string
            /\ UNCHANGED thrown
            /\ IF string = <<>>
               THEN outcome' = Done /\ phase' = "closed"
               ELSE UNCHANGED <<outcome, phase>>
    /\ UNCHANGED <<parser, source, run, reference, cancelled, counters, outputBuffer, cursor,
                   commits, entered, window, eosOut, endInFatal>>

\* transform: (chunk, controller) => process(controller, chunk)
Transform ==
    /\ parser = "TokenParser"
    /\ phase = "await"
    /\ \E n \in StringChunkSizes :
        /\ fed' = fed + n
        /\ Processed(process(inputBuffer, TRUE), <<SubSeq(source, fed + 1, fed + n)>>)
    /\ lastStep' = Plain("transform")

\* flush: (controller) => process(controller)
Flush ==
    /\ parser = "TokenParser"
    /\ phase = "await"
    /\ fed = Len(source)
    /\ Processed(process(inputBuffer, FALSE), <<>>)
    /\ lastStep' = Plain("flush")
    /\ UNCHANGED fed

NextTokenParser == Transform \/ Flush

SpecTokenParser == InitTokenParser /\ [][NextTokenParser]_vars

\* ------------------------------------------- syntax_analysis.ts: SyntaxParser
CommandKind == [Peek |-> 0, Consume |-> 1, Cursor |-> 2]

\* buffer[cursor] ?? null
NullToken == 0
TokenSet == {1, 2}

\* a parseable whose generator yields the commands of a script one after the other,
\* throws where the script says Raises, and returns after the last one
Raises == [kind |-> -1, data |-> <<>>]

ScriptCommands ==
    {[kind |-> CommandKind.Peek, data |-> <<>>], [kind |-> CommandKind.Consume, data |-> <<>>],
     [kind |-> CommandKind.Cursor, data |-> <<>>], [kind |-> CommandKind.Cursor, data |-> <<0>>],
     [kind |-> CommandKind.Cursor, data |-> <<1>>], Raises}

\* this.#parseable.parse()
Parseable(script) == [script |-> script, pc |-> 0]

\* generator.next(...): the generator runs to its next yield, its return or its throw
resume(generator) ==
    LET pc == generator.pc + 1
        g == [generator EXCEPT !.pc = pc]
    IN  IF pc > Len(generator.script)
        THEN [t |-> "return", generator |-> g, result |-> [done |-> TRUE, value |-> pc]]
        ELSE IF generator.script[pc] = Raises
        THEN [t |-> "throw", generator |-> g, result |-> [done |-> TRUE, value |-> pc]]
        ELSE [t |-> "yield", generator |-> g,
              result |-> [done |-> FALSE, value |-> generator.script[pc]]]

SyntaxParser(parseable, buffer, syntaxCursor, parserState) ==
    [parseable |-> parseable, buffer |-> buffer, cursor |-> syntaxCursor, state |-> parserState]

\* what a call of SyntaxParser.parse leaves: the parser, the nodes it yielded, the
\* commands it answered, and how it ended.  The generators are deterministic, so a
\* generator started a second time in the same call with the same buffer, cursor,
\* token and command means that the while loop never ends: Diverges
Parsed(o, acc, error) ==
    [syntaxParser |-> o, nodes |-> acc.nodes, log |-> acc.log, error |-> error]

Diverges == PlainError("SyntaxParser.parse does not return")

\* the answer to a command, for the history
Answered(o, command, result) ==
    [kind |-> command.kind, data |-> command.data, result |-> result, pc |-> o.state.generator.pc,
     buffer |-> o.buffer]

RECURSIVE ForCursor(_, _, _)
RECURSIVE WhileCommandKind(_, _, _, _, _)

\* for (; this.#cursor < length; this.#cursor++)
ForCursor(o, length, acc) ==
    IF o.cursor < length
    THEN WhileCommandKind(o, length,
                          IF o.cursor < Len(o.buffer) THEN o.buffer[o.cursor + 1] ELSE NullToken,
                          CommandKind.Peek, acc)
    ELSE Parsed(o, acc, NoError)

\* while (command.kind !== CommandKind.Consume)
WhileCommandKind(o, length, token, kind, acc) ==
    IF kind = CommandKind.Consume \/ (token = NullToken /\ ~o.state.active)
    THEN ForCursor([o EXCEPT !.cursor = @ + 1], length, acc)
    ELSE IF ~o.state.active
    THEN LET r == resume(o.parseable)
             here == <<o.buffer, o.cursor, token, kind>>
         IN  IF here \in acc.seen
             THEN Parsed(o, acc, Diverges)
             ELSE IF r.t = "throw"
             THEN Parsed(o, acc, PlainError("error"))
             ELSE WhileCommandKind([o EXCEPT !.state = Suspended(r.generator, r.result)],
                                   length, token, kind,
                                   [acc EXCEPT !.seen = @ \cup {here}])
    ELSE IF o.state.result.done
    THEN WhileCommandKind(
            [o EXCEPT !.buffer = SubSeq(@, o.cursor + 1, Len(@)), !.cursor = 0,
                      !.state = NoState],
            length, token, kind,
            [acc EXCEPT !.nodes = Append(@, o.state.result.value)])
    ELSE LET command == o.state.result.value
             isCursor == command.kind = CommandKind.Cursor
             r == resume(o.state.generator)
             answered == [acc EXCEPT !.log = Append(@,
                            Answered(o, command, IF isCursor THEN o.cursor ELSE token))]
         IN  IF r.t = "throw"
             THEN Parsed(o, answered, IF token = NullToken THEN NoError ELSE PlainError("error"))
             ELSE WhileCommandKind(
                    [o EXCEPT !.state = Suspended(r.generator, r.result),
                              !.cursor = IF isCursor /\ command.data # <<>>
                                         THEN command.data[1] ELSE @],
                    length, token, command.kind, answered)

\* SyntaxParser.parse(tokens, options)
syntaxParse(o, tokens, stream) ==
    LET buffer == o.buffer \o tokens
    IN  ForCursor([o EXCEPT !.buffer = buffer], Len(buffer) + (IF stream THEN 0 ELSE 1),
                  [nodes |-> <<>>, log |-> <<>>, seen |-> {}])

\* a SyntaxParserStream; state is its SyntaxParser, inputBuffer its previousTokens
\* (<<>>: undefined, <<tokens>>: an array), window the commands the last call answered
InitSyntaxParser ==
    /\ parser = "SyntaxParser"
    /\ source \in SeqsUpTo(TokenSet, MaxTokens)
    /\ run = "split"
    /\ reference = NoReference
    /\ fed = 0
    /\ phase = "await"
    /\ inputBuffer = <<>>
    /\ outputBuffer = <<>>
    /\ cursor = 0
    /\ \E script \in SeqsUpTo(ScriptCommands, MaxScript) :
            state = SyntaxParser(Parseable(script), <<>>, 0, NoState)
    /\ thrown = NoError
    /\ emitted = <<>>
    /\ outcome = NoError
    /\ commits = <<>>
    /\ entered = <<>>
    /\ window = <<>>
    /\ eosOut = FALSE
    /\ endInFatal = -1
    /\ lastStep = Plain("init")
    /\ counters = Cursor(0, 0, 0)
    /\ cancelled = FALSE

\* process(controller, tokens): Array.from(syntaxParser.parse(previousTokens, options)),
\* controller.enqueue(nodes), previousTokens = tokens
SyntaxProcessed(tokens) ==
    LET r == IF inputBuffer # <<>>
             THEN syntaxParse(state, inputBuffer[1], tokens # <<>>)
             ELSE Parsed(state, [nodes |-> <<>>, log |-> <<>>, seen |-> {}], NoError)
    IN  /\ state' = r.syntaxParser
        /\ window' = r.log
        /\ IF r.error # NoError
           THEN /\ thrown' = r.error
                /\ outcome' = r.error
                /\ phase' = "closed"
                /\ UNCHANGED <<emitted, inputBuffer>>
           ELSE /\ emitted' = IF r.nodes # <<>> THEN Append(emitted, r.nodes) ELSE emitted
                /\ inputBuffer' = tokens
                /\ UNCHANGED thrown
                /\ IF tokens = <<>>
                   THEN outcome' = Done /\ phase' = "closed"
                   ELSE UNCHANGED <<outcome, phase>>
        /\ UNCHANGED <<parser, source, run, reference, cancelled, counters, outputBuffer,
                       cursor, commits, entered, eosOut, endInFatal>>

\* transform: (chunk, controller) => process(controller, chunk)
SyntaxTransform ==
    /\ parser = "SyntaxParser"
    /\ phase = "await"
    /\ \E n \in 0..(Len(source) - fed) :
        /\ fed' = fed + n
        /\ SyntaxProcessed(<<SubSeq(source, fed + 1, fed + n)>>)
    /\ lastStep' = Plain("transform")

\* flush: (controller) => process(controller)
SyntaxFlush ==
    /\ parser = "SyntaxParser"
    /\ phase = "await"
    /\ fed = Len(source)
    /\ SyntaxProcessed(<<>>)
    /\ lastStep' = Plain("flush")
    /\ UNCHANGED fed

NextSyntaxParser == SyntaxTransform \/ SyntaxFlush

SpecSyntaxParser == InitSyntaxParser /\ [][NextSyntaxParser]_vars

\* ------------------------------------------------------ code_point.ts: TokenDecoder
\* The regular-expression lexer of code_point.ts 184-259. A source is a sequence of
\* characters; every decode call gets the next piece of it, and the decoder keeps
\* its rule set and its counters from one call to the next.

\* U+0060, the delimiter of template literals
Backtick == "<BACKTICK>"

\* the characters of the modelled sources: the template delimiters, a letter and LF
TemplateCharacters == {Backtick, "$", "{", "}", "a", "\n"}

\* with ' for the backtick: '${}${}'}  'a${a}a'  '\''a  a<CR>  <CR><LF>}
TemplateSamples ==
    {<<Backtick, "$", "{", "}", "$", "{", "}", Backtick, "}">>,
     <<Backtick, "a", "$", "{", "a", "}", "a", Backtick>>,
     <<Backtick, "\\", Backtick, Backtick, "a">>,
     <<"a", "\r">>,
     <<"\r", "\n", "}">>}

\* (?:(?!\$\{)[^'\\]|\\.)* (with ' for the backtick) from index i of view: the index after the match
RECURSIVE TemplateCharactersFrom(_, _)
TemplateCharactersFrom(view, i) ==
    IF i > Len(view)
    THEN i
    ELSE IF view[i] = "\\"
         THEN IF i + 1 <= Len(view) /\ view[i + 1] \notin {"\n", "\r"}
              THEN TemplateCharactersFrom(view, i + 2)
              ELSE i
         ELSE IF \/ view[i] = Backtick
                 \/ view[i] = "$" /\ i + 1 <= Len(view) /\ view[i + 1] = "{"
              THEN i
              ELSE TemplateCharactersFrom(view, i + 1)

\* [_$\p{L}\p{M}\p{N}\p{Pc}]* from index i of view: the index after the match
RECURSIVE IdentifierCharactersFrom(_, _)
IdentifierCharactersFrom(view, i) ==
    IF i <= Len(view) /\ view[i] \in {"$", "a"}
    THEN IdentifierCharactersFrom(view, i + 1)
    ELSE i

\* regExp.exec(sourceCodeView) for the rule of a token type: the length of result[0],
\* 0 for null. A match of Comment, String, Number, RegExp or Whitespace begins with
\* a slash, a quote, a digit or a blank, which the modelled sources do not hold.
exec(type, view) ==
    LET opened(first) == view[1] = first
        body == TemplateCharactersFrom(view, 2)
        closedBy(last) == body + Len(last) - 1 <= Len(view)
                          /\ SubSeq(view, body, body + Len(last) - 1) = last
        template(first, last) ==
            IF opened(first) /\ closedBy(last) THEN body + Len(last) - 1 ELSE 0
    IN  CASE type = "TemplateLiteral" -> template(Backtick, <<Backtick>>)
          [] type = "TemplateLiteralStart" -> template(Backtick, <<"$", "{">>)
          [] type = "TemplateLiteralMiddle" -> template("}", <<"$", "{">>)
          [] type = "TemplateLiteralEnd" -> template("}", <<Backtick>>)
          [] type = "Identifier" ->
                IF view[1] \in {"$", "a"} THEN IdentifierCharactersFrom(view, 2) - 1 ELSE 0
          [] type = "Punctuator" -> IF view[1] \in {"{", "}"} THEN 1 ELSE 0
          [] type = "LineTerminator" ->
                IF view[1] = "\n"
                THEN 1
                ELSE IF view[1] = "\r" /\ Len(view) >= 2 /\ view[2] = "\n" THEN 2 ELSE 0
          [] type = "Unknown" -> IF view[1] \notin {"\n", "\r"} THEN 1 ELSE 0
          [] OTHER -> 0

\* static #defaultRegExps
defaultRegExps ==
    <<"Comment", "String", "TemplateLiteral", "TemplateLiteralStart", "Number", "RegExp",
      "Identifier", "Punctuator", "Whitespace", "LineTerminator", "Unknown">>

\* static #templateLiteralRegExps
templateLiteralRegExps ==
    <<"TemplateLiteralMiddle", "TemplateLiteralEnd">> \o defaultRegExps

\* a transition table without the entry of TemplateLiteralEnd
regExpsTransitionWithoutEnd(type, activeRegExps) ==
    IF type \in {"TemplateLiteralStart", "TemplateLiteralMiddle"}
    THEN templateLiteralRegExps
    ELSE activeRegExps

\* TokenDecoder.#regExpsTransition.get(type) ?? this.#activeRegExps
regExpsTransition(type, activeRegExps) ==
    CASE type \in {"TemplateLiteralStart", "TemplateLiteralMiddle"} -> templateLiteralRegExps
      [] type = "TemplateLiteralEnd" -> defaultRegExps
      [] OTHER -> activeRegExps

\* for (const character of payload) { ... } this.position += payload.length
RECURSIVE Counted(_, _)
Counted(c, payload) ==
    IF payload = <<>>
    THEN c
    ELSE Counted(IF Head(payload) = "\n"
                 THEN Cursor(c.position + 1, 0, c.line + 1)
                 ELSE Cursor(c.position + 1, c.column + 1, c.line),
                 Tail(payload))

\* the rules of activeRegExps that match the view, in the order of the list
Matching(activeRegExps, view) ==
    SelectSeq(activeRegExps, LAMBDA type : exec(type, view) > 0)

\* new TokenDecoder(): state holds #activeRegExps, counters position/column/line;
\* inputBuffer and cursor are sourceCode and index of the decode call in progress
InitTokenDecoder ==
    /\ parser = "TokenDecoder"
    /\ source \in SeqsUpTo(TemplateCharacters, MaxCode) \cup TemplateSamples
    /\ run = "split"
    /\ reference = NoReference
    /\ fed = 0
    /\ phase = "await"
    /\ inputBuffer = <<>>
    /\ outputBuffer = <<>>
    /\ cursor = 0
    /\ state = [activeRegExps |-> defaultRegExps]
    /\ thrown = NoError
    /\ emitted = <<>>
    /\ outcome = NoError
    /\ commits = <<>>
    /\ entered = <<>>
    /\ window = <<>>
    /\ eosOut = FALSE
    /\ endInFatal = -1
    /\ lastStep = Plain("init")
    /\ counters = Cursor(0, 0, 0)
    /\ cancelled = FALSE

\* tokenDecoder.decode(sourceCode, options): the caller iterates over the tokens of
\* the next piece of the source
DecodeCall ==
    /\ parser = "TokenDecoder"
    /\ phase = "await"
    /\ \E n \in 1..(Len(source) - fed) :
        /\ fed' = fed + n
        /\ inputBuffer' = SubSeq(source, fed + 1, fed + n)
    /\ cursor' = 0
    /\ phase' = "loop"
    /\ lastStep' = Plain("decode")
    /\ UNCHANGED <<parser, source, run, reference, counters, outputBuffer, state, thrown,
                   emitted, outcome, commits, entered, window, eosOut, endInFatal, cancelled>>

\* one turn of outerLoop up to the yield: the first rule of #activeRegExps that
\* matches makes the token; without one the error is thrown
DecodeMatch ==
    /\ parser = "TokenDecoder"
    /\ phase = "loop"
    /\ cursor < Len(inputBuffer)
    /\ LET sourceCodeView == SubSeq(inputBuffer, cursor + 1, Len(inputBuffer))
           matching == Matching(state.activeRegExps, sourceCodeView)
       IN  IF matching # <<>>
           THEN LET type == matching[1]
                    payload == SubSeq(sourceCodeView, 1, exec(type, sourceCodeView))
                    end == Counted(counters, payload)
                IN  /\ cursor' = cursor + Len(payload)
                    /\ counters' = end
                    /\ emitted' = Append(emitted, [type |-> type, payload |-> payload,
                                                   span |-> Span(counters, end)])
                    /\ window' = Append(window, [activeRegExps |-> state.activeRegExps,
                                                 sourceCodeView |-> sourceCodeView])
                    /\ phase' = "yield"
                    /\ UNCHANGED <<thrown, outcome>>
           ELSE /\ thrown' = PlainError("unexpected character")
                /\ outcome' = PlainError("unexpected character")
                /\ phase' = "closed"
                /\ UNCHANGED <<cursor, counters, emitted, window>>
    /\ lastStep' = Plain("match")
    /\ UNCHANGED <<parser, source, run, reference, fed, inputBuffer, outputBuffer, state,
                   commits, entered, eosOut, endInFatal, cancelled>>

\* the caller asks for the next token: decode goes on after the yield
DecodeResume ==
    /\ parser = "TokenDecoder"
    /\ phase = "yield"
    /\ state' = [state EXCEPT !.activeRegExps =
                    regExpsTransition(emitted[Len(emitted)].type, @)]
    /\ phase' = "loop"
    /\ lastStep' = Plain("resume")
    /\ UNCHANGED <<parser, source, run, reference, fed, counters, inputBuffer, outputBuffer,
                   cursor, thrown, emitted, outcome, commits, entered, window, eosOut,
                   endInFatal, cancelled>>

\* index < sourceCode.length fails: decode returns
DecodeReturn ==
    /\ parser = "TokenDecoder"
    /\ phase = "loop"
    /\ cursor >= Len(inputBuffer)
    /\ phase' = "await"
    /\ lastStep' = Plain("return")
    /\ UNCHANGED <<parser, source, run, reference, fed, counters, inputBuffer, outputBuffer,
                   cursor, state, thrown, emitted, outcome, commits, entered, window, eosOut,
                   endInFatal, cancelled>>

NextTokenDecoder == DecodeCall \/ DecodeMatch \/ DecodeResume \/ DecodeReturn

SpecTokenDecoder == InitTokenDecoder /\ [][NextTokenDecoder]_vars

\* ------------------------------------------------------ properties
IsPrefix(s, t) == Len(s) <= Len(t) /\ SubSeq(t, 1, Len(s)) = s

\* the results delivered or waiting to be delivered downstream, in order
\* (the finally clause yields outputBuffer without emptying it)
Delivered == IF phase = "closed" THEN Flatten(emitted) ELSE Flatten(emitted) \o outputBuffer
CommitValues == [i \in 1..Len(commits) |-> commits[i].value]
CommitItems == Flatten([i \in 1..Len(commits) |-> commits[i].items])

\* C1: when the running coroutine has completed with cursor = k >= 1, the engine's
\* next step appends its result to the output once, removes exactly the first k
\* items of inputBuffer (the others stay, in order), sets cursor to 0 and is idle.
C1_Commit ==
    [][(InLoop /\ Completed /\ cursor >= 1) =>
        /\ outputBuffer' = Append(outputBuffer, state.result.value)
        /\ emitted' = emitted
        /\ inputBuffer' = SubSeq(inputBuffer, cursor + 1, Len(inputBuffer))
        /\ cursor' = 0
        /\ ~state'.active]_vars

C1_Witness ==
    /\ lastStep.op = "commit"
    /\ InLoop
    /\ ~state.active /\ cursor = 0
    /\ Len(commits) = 1 /\ Len(commits[1].items) = 1
    /\ Len(inputBuffer) = 1

\* C2: a coroutine suspended on Peek or Consume with cursor < inputBuffer.length is
\* resumed with inputBuffer[cursor]; inputBuffer is unchanged and, unless the resumed
\* coroutine raises, cursor is unchanged after Peek and one more after Consume.
C2_PeekConsume ==
    [][(/\ InLoop
        /\ Running
        /\ state.result.value.kind \in {Peek, Consume}
        /\ cursor < Len(inputBuffer)) =>
        /\ lastStep'.op = "deliver"
        /\ lastStep'.result = inputBuffer[cursor + 1]
        /\ inputBuffer' = inputBuffer
        /\ (lastStep'.answer # "throw" =>
                cursor' = IF state.result.value.kind = Peek THEN cursor ELSE cursor + 1)]_vars

C2_Witness ==
    /\ lastStep.op = "deliver"
    /\ lastStep.command.kind = Peek
    /\ lastStep.cursor = 1 /\ cursor = 1
    /\ lastStep.result = 2
    /\ Running

\* C3: Position without argument answers the cursor and leaves it; Position with
\* argument c sets cursor = c and answers the cursor held before; inputBuffer and the
\* output are unchanged.
C3_Position ==
    [][(/\ InLoop
        /\ Running
        /\ state.result.value.kind = Position
        /\ lastStep'.op = "position") =>
        /\ lastStep'.result = cursor
        /\ cursor' = IF state.result.value.args = <<>>
                     THEN cursor
                     ELSE state.result.value.args[1]
        /\ inputBuffer' = inputBuffer
        /\ outputBuffer' = outputBuffer
        /\ emitted' = emitted]_vars

C3_Witness ==
    /\ lastStep.op = "position"
    /\ lastStep.command.args = <<0>>
    /\ lastStep.cursor = 2 /\ lastStep.result = 2
    /\ cursor = 0

\* C4: the output grows only by a commit with cursor >= 1; a coroutine that completes
\* before yielding a command, or completes with cursor = 0, makes the engine raise
\* "parser doesn't consume any items" and adds no result.
C4_CommitProgress ==
    [][/\ (Len(outputBuffer') > Len(outputBuffer) => (InLoop /\ Completed /\ cursor >= 1))
       /\ ((\/ InLoop /\ Completed /\ cursor = 0
            \/ InLoop /\ ~state.active /\ lastStep'.op = "start" /\ lastStep'.answer = "return")
           => /\ thrown' = NoItemsError
              /\ phase' = "finally"
              /\ outputBuffer' = outputBuffer
              /\ emitted' = emitted
              /\ commits' = commits)]_vars

C4_Witness ==
    /\ lastStep.op = "commit"
    /\ phase = "finally"
    /\ thrown = NoItemsError
    /\ cursor = 0
    /\ Len(window) >= 1
    /\ Len(commits) = 1

\* C5: while a coroutine is running the engine only appends to inputBuffer, so a
\* Peek/Consume at a cursor the coroutine was served from before delivers the same item.
C5_RewindWindow ==
    [][/\ ((state.active /\ state'.active) => IsPrefix(inputBuffer, inputBuffer'))
       /\ ((/\ InLoop
            /\ Running
            /\ lastStep'.op = "deliver"
            /\ cursor < Len(window)
            /\ window[cursor + 1] # <<>>)
           => <<lastStep'.result>> = window[cursor + 1])]_vars

C5_Witness ==
    /\ lastStep.op = "deliver"
    /\ lastStep.cursor = 0
    /\ lastStep.command.kind = Consume
    /\ Len(window) = 2 /\ window[2] # <<>>
    /\ Len(inputBuffer) = 2
    /\ phase = "process"

\* C6: EndOfParserStream is thrown into a coroutine only after the input has closed,
\* into a coroutine suspended on Peek/Consume with cursor >= inputBuffer.length; while
\* the input is open such a coroutine stays suspended with cursor, buffer and output
\* unchanged until a batch arrives.
C6_EndOfStreamInjection ==
    [][/\ ((lastStep'.op = "inject" /\ InLoop /\ Running)
           => /\ EndOfInput
              /\ state.result.value.kind \in {Peek, Consume}
              /\ cursor >= Len(inputBuffer))
       /\ ((/\ SrcOpen
            /\ Running
            /\ state.result.value.kind \in {Peek, Consume}
            /\ cursor >= Len(inputBuffer))
           => /\ state' = state
              /\ cursor' = cursor
              /\ lastStep'.op # "inject"
              /\ (\/ lastStep'.op = "chunk"
                  \/ /\ inputBuffer' = inputBuffer
                     /\ outputBuffer' = outputBuffer
                     /\ emitted' = emitted))]_vars

C6_Witness ==
    /\ lastStep.op = "inject"
    /\ phase = "processNull"
    /\ Running
    /\ cursor = Len(inputBuffer) /\ cursor = 2

\* C7: the stream completes without error only if inputBuffer is empty and every item
\* received was committed; if a coroutine ends by raising EndOfParserStream while
\* uncommitted items remain, the stream fails with "parser was not able to completely
\* process the input stream".
C7_TerminalRemainder ==
    /\ (phase = "closed" /\ outcome = Done)
            => (inputBuffer = <<>> /\ CommitItems = source)
    /\ (phase = "closed" /\ eosOut /\ Len(inputBuffer) > 0)
            => outcome = RemainderError

\* C9: the output batches, concatenated, are exactly the coroutines' results in the
\* order the coroutines completed, and the items behind the results are consecutive
\* stretches of the input, in the same order.
C9_Ordering ==
    /\ Delivered = CommitValues
    /\ \A i \in 1..Len(commits) : commits[i].value = i
    /\ \A i \in 1..Len(commits) : Len(commits[i].items) >= 1
    /\ IsPrefix(CommitItems, source)

C9_Witness ==
    /\ phase = "closed"
    /\ Len(emitted) = 2
    /\ Len(commits) = 2

\* C10: when the parser inside maybe fails with a non-fatal error, maybe returns null
\* with the cursor where it was when maybe was entered.
C10_MaybeRestores ==
    [][(/\ InLoop
        /\ Running
        /\ state.generator.pc = "maybeRestore"
        /\ lastStep'.op = "position")
       => /\ cursor' = entered[Len(entered)]
          /\ lastStep'.note = "maybe returned null"]_vars

C10_Witness ==
    /\ lastStep.op = "position"
    /\ lastStep.pc = "maybeRestore"
    /\ lastStep.note = "maybe returned null"
    /\ lastStep.cursor = 2
    /\ cursor = 1

\* C8: the lexical stage emits the same tokens (kind, payload, span) and ends the same
\* way however the source is split into chunks.
C8_IdempotentLexing ==
    (run = "split" /\ phase = "closed")
        => (Flatten(emitted) = reference.tokens /\ outcome = reference.outcome)

C8_Witness ==
    /\ run = "split" /\ phase = "closed"
    /\ Len(emitted) = 2
    /\ Len(emitted[1]) = 1
    /\ emitted[2][1].payload = <<13, 10>>
    /\ emitted[2][1].span.begin.column = 1
    /\ outcome = Done

\* the tokens handed downstream so far, in order
Tokens == Flatten(emitted)
Payloads == Flatten([i \in 1..Len(Tokens) |-> Tokens[i].payload])

\* C15: when the lexical stage completes without error, the payloads of the emitted
\* tokens, concatenated in order, are the source: no code point is dropped, duplicated
\* or reordered.
C15_Coverage ==
    (parser = "token" /\ phase = "closed" /\ outcome = Done) => Payloads = source

C15_Witness ==
    /\ parser = "token" /\ phase = "closed" /\ outcome = Done
    /\ run = "split"
    /\ source = <<13, 32, 10>>
    /\ Len(Tokens) = 3

\* C16: the first emitted token begins at position 0, every later token begins where
\* the one before it ends, and a token's span is as long as its payload.
C16_SpanContiguity ==
    parser = "token" =>
        /\ (Len(Tokens) > 0 => Tokens[1].span.begin.position = 0)
        /\ \A i \in 1..(Len(Tokens) - 1) :
                Tokens[i + 1].span.begin.position = Tokens[i].span.end.position
        /\ \A i \in 1..Len(Tokens) :
                Tokens[i].span.end.position - Tokens[i].span.begin.position
                    = Len(Tokens[i].payload)

C16_Witness ==
    /\ parser = "token" /\ phase = "closed"
    /\ run = "split"
    /\ Len(Tokens) = 2
    /\ Tokens[1].payload = <<13, 10>>
    /\ Tokens[2].span.begin.position = 2
    /\ Tokens[2].span.begin.line = 1

\* a step of the engine that answers a Position command of a coroutine built with the
\* combinators, suspended at pc inside first or furthest
AtPosition(pc) ==
    /\ InLoop
    /\ Running
    /\ state.generator.k = "comb"
    /\ state.generator.pc = pc
    /\ lastStep'.op = "position"

Trail == entered[Len(entered)]

\* C12: every branch of first starts with the cursor where first was entered; first
\* returns index, position and value of the lowest-index branch that returns, with the
\* cursor where that branch left it, and runs no branch after it.
C12_FirstSuccess ==
    [][/\ (AtPosition("firstEnter") => cursor' = cursor)
       /\ (AtPosition("firstRewind") => cursor' = Trail.start)
       /\ (AtPosition("firstValuePosition") =>
            LET ret == lastStep'.note.ret
            IN  /\ ret.by = "first"
                /\ ret.index = Len(Trail.done)
                /\ \A i \in 1..Len(Trail.done) : ~Trail.done[i].ok
                /\ ret.value = Trail.returned
                /\ ret.position = cursor
                /\ cursor' = cursor
                /\ Len(entered') < Len(entered))]_vars

C12_Witness ==
    /\ parser = "comb"
    /\ lastStep.op = "position"
    /\ lastStep.pc = "firstValuePosition"
    /\ lastStep.note.ret.index = 1
    /\ lastStep.note.ret.position = 1
    /\ lastStep.cursor = 1
    /\ lastStep.answer = "return"

\* the branch whose end is the furthest among the ended branches in `among`, the
\* lowest-index one if several end equally far
Winner(done, among) ==
    CHOOSE i \in among :
        \A j \in among : done[j].at < done[i].at \/ (done[j].at = done[i].at /\ i <= j)

\* the branches that reached the highest cursor while they ran
Highest(done) == {i \in 1..Len(done) : \A j \in 1..Len(done) : done[j].high <= done[i].high}

\* C13 as stated: when every branch of first has failed, the error first raises is the
\* error of a branch that reached the highest cursor before failing.
C13_FurthestFailureByHighestCursor ==
    [][AtPosition("firstFinal") =>
        /\ lastStep'.note.err.by = "first"
        /\ lastStep'.note.err.index + 1 \in Highest(Trail.done)]_vars

\* C13 amended: when every branch of first has failed, the error first raises is the
\* error of the branch whose cursor was the highest at the moment it failed (the
\* lowest-index one among equals), and first leaves the cursor there.
C13_FurthestFailure ==
    [][AtPosition("firstFinal") =>
        LET w == Winner(Trail.done, 1..Len(Trail.done))
        IN  /\ \A i \in 1..Len(Trail.done) : ~Trail.done[i].ok
            /\ Len(Trail.done) = Top(state.generator).n
            /\ lastStep'.note.err.by = "first"
            /\ lastStep'.note.err.index + 1 = w
            /\ lastStep'.note.err.error = Trail.done[w].error
            /\ cursor' = Trail.done[w].at
            /\ (lastStep'.answer = "throw" =>
                    /\ thrown'.msg = Trail.done[w].error.msg
                    /\ thrown'.eos = Trail.done[w].error.eos)]_vars

C13_Witness ==
    /\ parser = "comb"
    /\ lastStep.op = "position"
    /\ lastStep.pc = "firstFinal"
    /\ lastStep.note.err.index = 1
    /\ lastStep.command.args = <<2>>
    /\ lastStep.answer = "throw"
    /\ phase = "finally"

Succeeded(done) == {i \in 1..Len(done) : done[i].ok}

\* furthest returns the branch w of the trail
ReturnsBranch(w) ==
    /\ lastStep'.note.ret.by = "furthest"
    /\ lastStep'.note.ret.index + 1 = w
    /\ lastStep'.note.ret.position = Trail.done[w].at
    /\ lastStep'.note.ret.value = Trail.done[w].value
    /\ lastStep'.note.err.by # "furthest"
    /\ cursor' = Trail.done[w].at

\* furthest raises the error of the branch w of the trail
RaisesBranch(w) ==
    /\ lastStep'.note.err.by = "furthest"
    /\ lastStep'.note.err.index + 1 = w
    /\ lastStep'.note.err.error = Trail.done[w].error
    /\ lastStep'.note.ret.by # "furthest"
    /\ cursor' = Trail.done[w].at

\* every branch of furthest starts where furthest was entered, and all of them are run
SameStart ==
    /\ (AtPosition("furthestEnter") => cursor' = cursor)
    /\ (AtPosition("furthestFinally") => cursor' = Trail.start)
    /\ (AtPosition("furthestFinal") => Len(Trail.done) = Top(state.generator).n)

FatalRaised ==
    /\ parser = "comb"
    /\ lastStep'.op \in {"start", "deliver", "inject", "position"}
    /\ lastStep'.note.err.by # ""
    /\ (lastStep'.note.inFatal \/ lastStep'.note.err.error.fatal)

\* a finally clause of furthest is running while a fatal error is on its way out
FatalPending ==
    /\ AtPosition("furthestFinally")
    /\ Top(state.generator).pending # NoError

\* the error leaves the coroutine marked fatal, or is still on its way out through a
\* finally clause of furthest; no catch clause has taken it
Propagates(error) ==
    \/ /\ lastStep'.answer = "throw"
       /\ IF lastStep'.op = "inject" /\ error.eos
          THEN ~state'.active /\ thrown' = thrown
          ELSE thrown' = [error EXCEPT !.fatal = TRUE] /\ phase' = "finally"
    \/ /\ lastStep'.answer = "yield"
       /\ state'.generator.pc = "furthestFinally"
       /\ Top(state'.generator).pending = [error EXCEPT !.fatal = TRUE]

\* C11: an error raised inside fatal leaves it marked fatal, and a fatal error goes
\* through every enclosing maybe, first and furthest: maybe does not return null,
\* first and furthest try no later branch and raise no other error.
C11_FatalPropagates ==
    [][/\ (FatalRaised => Propagates(lastStep'.note.err.error))
       /\ (FatalPending => Propagates(Top(state.generator).pending))]_vars

C11_Witness ==
    /\ parser = "comb"
    /\ lastStep.op = "position"
    /\ lastStep.pc = "furthestFinally"
    /\ lastStep.answer = "throw"
    /\ thrown = [PlainError("error") EXCEPT !.fatal = TRUE]
    /\ phase = "finally"
    /\ Len(state.generator.frames) = 1
    /\ Top(state.generator).kind = "furthest"

\* C17: once the end of input, thrown into a coroutine inside fatal, has left fatal,
\* no enclosing maybe, first or furthest takes it, no result is committed any more and
\* the stream ends with an error.
C17_EndOfInputInFatal ==
    endInFatal >= 0 =>
        /\ Len(commits) = endInFatal
        /\ Len(Delivered) = endInFatal
        /\ \/ ~state.active
           \/ phase \in {"finally", "closed"}
           \/ /\ Running
              /\ state.generator.pc = "furthestFinally"
              /\ Top(state.generator).pending = [EndOfParserStream EXCEPT !.fatal = TRUE]
        /\ (phase = "closed" => outcome \notin {Done, NoError})

C17_Witness ==
    /\ endInFatal = 1
    /\ phase = "closed"
    /\ outcome = RemainderError
    /\ Len(inputBuffer) = 1

\* ------------------------------------------------------ the syntactic stage
Statements == Flatten(emitted)
IsPunctuator(token, codePoint) ==
    token.kind = "PunctuatorToken" /\ token.payload = <<codePoint>>
Kinds(tokens) == [i \in 1..Len(tokens) |-> tokens[i].kind]

\* f(a,  with any identifiers for f and a
UnclosedCall ==
    /\ parser = "statement"
    /\ Kinds(source) = <<"IdentifierToken", "PunctuatorToken", "IdentifierToken",
                         "PunctuatorToken">>
    /\ IsPunctuator(source[2], 40)
    /\ IsPunctuator(source[4], 44)

\* C18: for the source `f(a,` and then the end of input no statement is emitted and the
\* stream fails with a fatal error whose message is
\* "<source-url>:<line+1>:<column+1>: Expression or ) expected", line and column being
\* those of the end of the last token, the comma.
C18_UnclosedCall ==
    UnclosedCall =>
        /\ Statements = <<>> /\ outputBuffer = <<>> /\ commits = <<>>
        /\ phase = "closed" =>
            LET end == source[4].span.end
            IN  /\ IsFatal(outcome)
                /\ outcome.msg = "<source-url>:" \o ToString(end.line + 1) \o ":"
                                    \o ToString(end.column + 1) \o ": Expression or ) expected"
                /\ (source[1].payload = <<97>> /\ source[3].payload = <<97>>
                        => outcome.msg = "<source-url>:1:5: Expression or ) expected")

C18_Witness ==
    /\ UnclosedCall
    /\ phase = "closed"
    /\ lastStep.op = "finally"
    /\ thrown = FatalError("<source-url>:1:5: Expression or ) expected")
    /\ cursor = 3
    /\ Len(inputBuffer) = 4

IdentifierOnly == parser = "statement" /\ Kinds(source) = <<"IdentifierToken">>
IdentifierSemicolon ==
    /\ parser = "statement"
    /\ Kinds(source) = <<"IdentifierToken", "PunctuatorToken">>
    /\ IsPunctuator(source[2], 59)

\* C19: a token stream of one Identifier and then the end of input yields exactly one
\* ExpressionStatement without semicolon; one Identifier and `;` yields the same
\* statement with the `;` token. Either way every token is committed and the stream
\* completes without error.
C19_OptionalSemicolon ==
    (IdentifierOnly \/ IdentifierSemicolon) =>
        /\ thrown = NoError
        /\ phase = "closed" =>
            /\ outcome = Done
            /\ Statements = <<ExpressionStatementNode(
                                IdentifierNode(source[1]),
                                IF IdentifierOnly THEN NullResult ELSE source[2])>>
            /\ CommitItems = source
            /\ inputBuffer = <<>>

C19_Witness ==
    /\ IdentifierOnly
    /\ phase = "closed"
    /\ outcome = Done
    /\ Len(commits) = 1
    /\ commits[1].value.semicolonToken = NullResult

\* The expression a token sequence stands for, read off the tokens: a primary, then
\* each suffix `.name` or `( arguments )` wraps what stands to its left.
Malformed == [kind |-> "malformed"]

PrimaryOf(token) ==
    CASE token.kind = "IdentifierToken" -> IdentifierNode(token)
      [] token.kind = "StringToken" -> StringLiteralNode(token)
      [] OTHER -> Malformed

\* the index of the `)` that closes the parenthesis open at depth, from tokens[i] on
RECURSIVE Closing(_, _, _)
Closing(tokens, i, depth) ==
    IF i > Len(tokens)
    THEN 0
    ELSE IF IsPunctuator(tokens[i], 40)
         THEN Closing(tokens, i + 1, depth + 1)
         ELSE IF IsPunctuator(tokens[i], 41)
              THEN IF depth = 1 THEN i ELSE Closing(tokens, i + 1, depth - 1)
              ELSE Closing(tokens, i + 1, depth)

\* the index of the first comma outside every parenthesis, from tokens[i] on
RECURSIVE CommaAt(_, _, _)
CommaAt(tokens, i, depth) ==
    IF i > Len(tokens)
    THEN 0
    ELSE IF IsPunctuator(tokens[i], 40)
         THEN CommaAt(tokens, i + 1, depth + 1)
         ELSE IF IsPunctuator(tokens[i], 41)
              THEN CommaAt(tokens, i + 1, depth - 1)
              ELSE IF depth = 0 /\ IsPunctuator(tokens[i], 44)
                   THEN i
                   ELSE CommaAt(tokens, i + 1, depth)

RECURSIVE Nested(_, _)
RECURSIVE ArgumentsOf(_)

ExpressionOf(tokens) ==
    IF tokens = <<>> THEN Malformed ELSE Nested(PrimaryOf(tokens[1]), Tail(tokens))

Nested(expression, suffixes) ==
    IF expression = Malformed \/ suffixes = <<>>
    THEN expression
    ELSE IF IsPunctuator(suffixes[1], 46)
    THEN IF Len(suffixes) >= 2 /\ suffixes[2].kind = "IdentifierToken"
         THEN Nested(MemberExpressionNode(expression, suffixes[1], suffixes[2]),
                     SubSeq(suffixes, 3, Len(suffixes)))
         ELSE Malformed
    ELSE IF IsPunctuator(suffixes[1], 40)
    THEN LET j == Closing(suffixes, 1, 0)
             arguments == ArgumentsOf(SubSeq(suffixes, 2, j - 1))
         IN  IF j = 0 \/ arguments = <<Malformed>>
             THEN Malformed
             ELSE Nested(CallExpressionNode(expression, suffixes[1], arguments, suffixes[j]),
                         SubSeq(suffixes, j + 1, Len(suffixes)))
    ELSE Malformed

ArgumentsOf(tokens) ==
    IF tokens = <<>>
    THEN <<>>
    ELSE LET k == CommaAt(tokens, 1, 0)
             expression == ExpressionOf(IF k = 0 THEN tokens ELSE SubSeq(tokens, 1, k - 1))
             more == IF k = 0 THEN <<>> ELSE ArgumentsOf(SubSeq(tokens, k + 1, Len(tokens)))
         IN  IF expression = Malformed \/ more = <<Malformed>>
             THEN <<Malformed>>
             ELSE <<ArgumentNode(expression, IF k = 0 THEN NullResult ELSE tokens[k])>>
                    \o more

\* the number of suffixes around the primary of an expression
RECURSIVE Suffixes(_)
Suffixes(node) ==
    CASE node.kind = "MemberExpressionNode" -> 1 + Suffixes(node.object)
      [] node.kind = "CallExpressionNode" -> 1 + Suffixes(node.calleeExpressionNode)
      [] OTHER -> 0

PayloadsOf(tokens) == [i \in 1..Len(tokens) |-> tokens[i].payload]

\* C20: for a primary expression followed by n >= 0 member or call suffixes,
\* ExpressionNode.parse consumes all the suffixes and returns the node in which each
\* suffix wraps the result of those before it, the last suffix outermost: a.b.c is
\* MemberExpression(MemberExpression(a, b), c), and console.log("hi") is a
\* CallExpression whose callee is MemberExpression(console, log).
C20_LeftNested ==
    (parser = "statement" /\ ExpressionOf(source) # Malformed /\ phase = "closed") =>
        /\ outcome = Done
        /\ CommitItems = source
        /\ Statements = <<ExpressionStatementNode(ExpressionOf(source), NullResult)>>
        /\ (PayloadsOf(source) = <<<<97>>, <<46>>, <<98>>, <<46>>, <<99>>>> =>
                Statements[1].expression =
                    MemberExpressionNode(
                        MemberExpressionNode(IdentifierNode(source[1]), source[2], source[3]),
                        source[4], source[5]))
        /\ (Len(source) = 6 /\ source[5].kind = "StringToken" =>
                Statements[1].expression =
                    CallExpressionNode(
                        MemberExpressionNode(IdentifierNode(source[1]), source[2], source[3]),
                        source[4], <<ArgumentNode(StringLiteralNode(source[5]), NullResult)>>,
                        source[6]))

C20_Witness ==
    /\ parser = "statement"
    /\ phase = "closed"
    /\ Len(source) = 6
    /\ source[1].payload = <<99, 111, 110, 115, 111, 108, 101>>
    /\ Len(Statements) = 1
    /\ Statements[1].expression.kind = "CallExpressionNode"
    /\ Statements[1].expression.calleeExpressionNode.kind = "MemberExpressionNode"
    /\ Suffixes(Statements[1].expression) = 2

\* f(a, b,) as Token.parse splits it: f ( a , <space> b , )
TrailingComma ==
    /\ parser = "statement"
    /\ PayloadsOf(source) = <<<<102>>, <<40>>, <<97>>, <<44>>, <<32>>, <<98>>, <<44>>, <<41>>>>

\* C21: the source `f(a, b,)`, with the space after the first comma, run through code
\* points, tokens and statements, yields one ExpressionStatement whose CallExpression
\* has exactly two arguments, each with its `,` token, and no error is raised.
C21_TrailingComma ==
    (TrailingComma /\ phase = "closed") =>
        /\ outcome = Done
        /\ Len(Statements) = 1
        /\ Statements[1].expression.kind = "CallExpressionNode"
        /\ LET argumentNodes == Statements[1].expression.argumentNodes
           IN  /\ Len(argumentNodes) = 2
               /\ IsPunctuator(argumentNodes[1].commaToken, 44)
               /\ IsPunctuator(argumentNodes[2].commaToken, 44)

\* what the grammar does with it: the Whitespace token ends the argument list
C21_Observed ==
    /\ TrailingComma
    /\ phase = "closed"
    /\ Statements = <<>>
    /\ outcome = FatalError("<source-url>:1:5: Expression or ) expected")

\* the index of the first `(` of a token sequence, 0 if there is none
RECURSIVE FirstParenthesis(_, _)
FirstParenthesis(tokens, i) ==
    IF i > Len(tokens)
    THEN 0
    ELSE IF IsPunctuator(tokens[i], 40) THEN i ELSE FirstParenthesis(tokens, i + 1)

\* the source is an expression, then `(`, and what follows the `(` is not a list of
\* arguments (each an expression with or without comma, only the last one without)
\* closed by `)`
BrokenCall ==
    /\ parser = "statement"
    /\ LET i == FirstParenthesis(source, 1)
           after == SubSeq(source, i, Len(source))
           j == Closing(after, 1, 0)
       IN  /\ i > 1
           /\ ExpressionOf(SubSeq(source, 1, i - 1)) # Malformed
           /\ \/ j = 0
              \/ ArgumentsOf(SubSeq(after, 2, j - 1)) = <<Malformed>>

\* CallExpressionNode.parse is in progress and has consumed its `(`
InArguments(g) ==
    \E i \in 1..Len(g.frames) :
        g.frames[i].kind = "CallExpressionNode" /\ g.frames[i].pc # "leftParenthesis"

\* C22: inside CallExpressionNode.parse, once `(` is consumed, an argument without
\* comma must be followed by `)`, and `(` or an argument with comma by another argument
\* or `)`. Any other token, or the end of input, is a fatal failure: whatever error
\* leaves the coroutine while a call is past its `(` is fatal, and for a source whose
\* first call is broken in this way nothing is ever committed or emitted (the callee is
\* not a statement on its own) and the stream ends with the fatal error.
C22_ArgumentRule ==
    /\ (parser = "statement" /\ state.active /\ InArguments(state.generator)
            /\ thrown # NoError) => IsFatal(thrown)
    /\ BrokenCall =>
            /\ commits = <<>> /\ outputBuffer = <<>> /\ Statements = <<>>
            /\ phase = "closed" => IsFatal(outcome)

\* f(a"") : an argument without comma followed by a string
C22_Witness ==
    /\ BrokenCall
    /\ PayloadsOf(source) = <<<<102>>, <<40>>, <<97>>, <<34, 34>>, <<41>>>>
    /\ phase = "closed"
    /\ state.active /\ InArguments(state.generator)
    /\ outcome = FatalError("<source-url>:1:4: Expression or ) expected")
    /\ Statements = <<>>

\* an identifier, `.`, and then a token that is not an Identifier or nothing at all
DanglingDot ==
    /\ parser = "statement"
    /\ Len(source) \in {2, 3}
    /\ source[1].kind = "IdentifierToken"
    /\ IsPunctuator(source[2], 46)
    /\ Len(source) = 3 => source[3].kind # "IdentifierToken"

\* C23: once the `.` after an expression is consumed, a following token that is not an
\* Identifier, or the end of input, is a fatal failure: the first of
\* ExpressionNode.parse does not roll it back, the expression before the `.` is not
\* emitted as a statement, and the stream ends with a fatal error.
C23_MemberFatal ==
    DanglingDot =>
        /\ commits = <<>> /\ Statements = <<>>
        /\ phase = "closed" => IsFatal(outcome)

\* what the grammar does with `a.;`: the statement `a` is emitted, then `.` is
\* rejected as the begin of a statement
C23_Observed ==
    /\ DanglingDot
    /\ PayloadsOf(source) = <<<<97>>, <<46>>, <<59>>>>
    /\ phase = "closed"
    /\ Statements = <<ExpressionStatementNode(IdentifierNode(source[1]), NullResult)>>
    /\ outcome = PlainError("reached unexpected token")

\* x; <LF> y as Token.parse splits it
TwoStatements ==
    /\ parser = "statement"
    /\ PayloadsOf(source) = <<<<120>>, <<59>>, <<10>>, <<121>>>>
    /\ source[3].kind = "LineTerminatorToken"

\* C24: StatementNode.parse consumes and discards Comment, Whitespace and
\* LineTerminator tokens before it chooses a production, so the source `x;` newline `y`
\* yields exactly two statements and no error.
C24_TriviaSkipped ==
    (TwoStatements /\ phase = "closed") =>
        /\ outcome = Done
        /\ Statements = <<ExpressionStatementNode(IdentifierNode(source[1]), source[2]),
                          ExpressionStatementNode(IdentifierNode(source[4]), NullResult)>>

\* what the grammar does with it: `x;` is emitted, the LineTerminator token is
\* rejected as the begin of a statement
C24_Observed ==
    /\ TwoStatements
    /\ phase = "closed"
    /\ Statements = <<ExpressionStatementNode(IdentifierNode(source[1]), source[2])>>
    /\ outcome = PlainError("reached unexpected token")
    /\ Len(inputBuffer) = 2

\* ------------------------------------------------------ string literals
\* the line terminators of the language
LineTerminators == {10, 13, 8232, 8233}

\* the index of the first code point from text[i] on that is in S, 0 if there is none
RECURSIVE IndexIn(_, _, _)
IndexIn(text, i, S) ==
    IF i > Len(text) THEN 0 ELSE IF text[i] \in S THEN i ELSE IndexIn(text, i + 1, S)

\* the text opens a string literal that meets a line terminator or the end of the
\* text before its matching quote
Unterminated(text) ==
    /\ text # <<>>
    /\ text[1] \in {34, 39}
    /\ LET i == IndexIn(text, 2, LineTerminators \cup {text[1]})
       IN  i = 0 \/ text[i] \in LineTerminators

\* C25: a string literal that meets a line terminator (U+000A, U+000D, U+2028,
\* U+2029) or the end of input before its matching quote makes the lexical stage fail
\* with "Unclosed string literal", and no String token is emitted for it.
C25_UnclosedString ==
    (parser = "token" /\ Unterminated(source)) =>
        /\ Tokens = <<>>
        /\ phase = "closed" => outcome = PlainError("Unclosed string literal")

\* the same for a line feed or the end of input only
C25_LineFeedOrEnd ==
    (parser = "token" /\ Unterminated(source)
        /\ IndexIn(source, 2, {13, 8232, 8233, source[1]}) = 0) =>
        /\ Tokens = <<>>
        /\ phase = "closed" => outcome = PlainError("Unclosed string literal")

\* what Token.parse does with " CR " : one String token
C25_Observed ==
    /\ parser = "token"
    /\ source = <<34, 13, 34>>
    /\ phase = "closed"
    /\ outcome = Done
    /\ Kinds(Tokens) = <<"StringToken">>
    /\ Tokens[1].payload = source

\* C26: within a string literal a backslash escapes the next code point, so a quote
\* preceded by a backslash does not close the literal: the source "a\"b" is lexed as
\* a single String token whose payload is the whole source, and the source "\" is
\* not a complete String token.
C26_StringEscapes ==
    (parser = "token" /\ phase = "closed") =>
        /\ source = <<34, 97, 92, 34, 98, 34>> =>
                /\ outcome = Done
                /\ Kinds(Tokens) = <<"StringToken">>
                /\ Tokens[1].payload = source
        /\ source = <<34, 92, 34>> => Tokens = <<>>

\* what Token.parse does with "a\"b" : the String token "a\" and the Identifier b,
\* then the last quote opens a string that the end of input leaves unclosed
C26_Observed ==
    /\ parser = "token"
    /\ source = <<34, 97, 92, 34, 98, 34>>
    /\ phase = "closed"
    /\ Kinds(Tokens) = <<"StringToken", "IdentifierToken">>
    /\ Tokens[1].payload = <<34, 97, 92, 34>>
    /\ outcome = PlainError("Unclosed string literal")

\* ------------------------------------------------------ punctuators
\* the punctuators of the language
PunctuatorAlphabet ==
    {"{", "}", "(", ")", "[", "]", ".", ";", ",", "~", "?", ":",
     "<", "<=", "<<", "<<=", ">", ">=", ">>", ">>=", ">>>", ">>>=",
     "=", "==", "===", "!", "!=", "!==", "+", "++", "+=", "-", "--", "-=",
     "*", "*=", "/", "/=", "%", "%=", "&", "&&", "&=", "|", "||", "|=", "^", "^="}

\* the characters of a text as one string
RECURSIVE Text(_)
Text(characters) ==
    IF characters = <<>> THEN "" ELSE Head(characters) \o Text(Tail(characters))

\* the length of the longest prefix of the text that is a punctuator, 0 if none is
LongestPunctuator(text) ==
    LET lengths == {n \in 1..Len(text) : Text(SubSeq(text, 1, n)) \in PunctuatorAlphabet}
    IN  IF lengths = {} THEN 0 ELSE CHOOSE n \in lengths : \A m \in lengths : m <= n

\* the text begins a line comment
StartsComment(text) == Len(text) >= 2 /\ text[1] = "/" /\ text[2] = "/"

\* tokens[i], tokens[i + 1], ... are the tokens of text[o], text[o + 1], ...: each
\* token's payload is what the text goes on with, and where the text goes on with a
\* punctuator the token is the longest punctuator it goes on with. Nothing is asked
\* from a line comment on.
RECURSIVE Munched(_, _, _, _)
Munched(tokens, i, text, o) ==
    LET rest == SubSeq(text, o, Len(text))
    IN  IF rest = <<>>
        THEN i > Len(tokens)
        ELSE IF StartsComment(rest)
        THEN TRUE
        ELSE /\ i <= Len(tokens)
             /\ tokens[i].payload # <<>>
             /\ IsPrefix(tokens[i].payload, rest)
             /\ LongestPunctuator(rest) > 0 =>
                    /\ tokens[i].kind = TokenKind.Punctuator
                    /\ Len(tokens[i].payload) = LongestPunctuator(rest)
             /\ Munched(tokens, i + 1, text, o + Len(tokens[i].payload))

\* C27: for the tokenizer of ecmascript/parser.ts driven by TokenParser, whenever the
\* remaining input starts with a punctuator character, the emitted Punctuator token
\* is the longest prefix of the remaining input that is a punctuator (>>>= is one
\* token, === is one token), however the input is split into chunks.
C27_MaximalMunch ==
    (parser = "TokenParser" /\ phase = "closed" /\ outcome = Done) =>
        Munched(Tokens, 1, source, 1)

\* the same for the sources of punctuators, when no chunk is empty
C27_MaximalMunchInPieces ==
    (/\ parser = "TokenParser" /\ run = "pieces" /\ phase = "closed" /\ outcome = Done
     /\ \A i \in 1..Len(source) : source[i] \in Characters) =>
        Munched(Tokens, 1, source, 1)

\* >>>= arrives as the chunks ">>>" and "=" and is one token
C27_InPieces ==
    /\ parser = "TokenParser" /\ run = "pieces" /\ phase = "closed"
    /\ source = <<">", ">", ">", "=">>
    /\ Len(emitted) = 1
    /\ PayloadsOf(Tokens) = <<source>>
    /\ Tokens[1].span.begin.position = 0
    /\ Tokens[1].span.end.position = 1

\* what TokenParserStream does with the chunks ">>>=" and "": flush finds the empty
\* previousString and does not parse, the token in progress is never emitted
C27_Observed ==
    /\ parser = "TokenParser" /\ run = "split" /\ phase = "closed"
    /\ source = <<">", ">", ">", "=">>
    /\ outcome = Done
    /\ Tokens = <<>>
    /\ inputBuffer = <<>>
    /\ state.state.active /\ state.state.payload = source

\* ------------------------------------------------------ code-point cursors
\* the number of line feeds among text[1..k]
RECURSIVE LineFeeds(_, _)
LineFeeds(text, k) ==
    IF k = 0 THEN 0 ELSE LineFeeds(text, k - 1) + (IF text[k] = 10 THEN 1 ELSE 0)

\* the number of code points of text[1..k] behind the last line feed in it
RECURSIVE SinceLineFeed(_, _)
SinceLineFeed(text, k) ==
    IF k = 0 \/ text[k] = 10 THEN 0 ELSE SinceLineFeed(text, k - 1) + 1

\* c is the k-th code point of the text (k counts from 0) with the cursors it is due
Located(c, text, k) ==
    /\ c.codePoint = text[k + 1]
    /\ c.span.begin = Cursor(k, SinceLineFeed(text, k), LineFeeds(text, k))
    /\ c.span.end = IF text[k + 1] = 10
                    THEN Cursor(k + 1, 0, c.span.begin.line + 1)
                    ELSE Cursor(k + 1, c.span.begin.column + 1, c.span.begin.line)

\* the code points a step hands to the lexical stage: the end of inputBuffer'
Arrived == SubSeq(inputBuffer', Len(inputBuffer') - (fed' - fed) + 1, Len(inputBuffer'))

\* C28: the k-th code point CodePointsStream emits (k from 0, counted over all
\* fragments) begins at position k and ends at k + 1; its begin line is the number of
\* U+000A before it and its begin column the number of code points since the last
\* U+000A (or the start); its end has column + 1 on the same line, or column 0 on the
\* next line if it is U+000A. This holds wherever the fragment boundaries fall, and
\* each code point ends where the next one begins.
C28_CodePointCursors ==
    [][(parser = "token" /\ fed' > fed) =>
        /\ Len(inputBuffer') = Len(inputBuffer) + (fed' - fed)
        /\ \A j \in 1..(fed' - fed) : Located(Arrived[j], source, fed + j - 1)
        /\ \A j \in 1..(fed' - fed - 1) : Arrived[j].span.end = Arrived[j + 1].span.begin
        /\ counters' = Arrived[fed' - fed].span.end
        /\ Arrived[1].span.begin = counters]_vars

\* LF a : the second fragment starts on the second line
C28_Witness ==
    /\ parser = "token" /\ run = "split"
    /\ lastStep.op = "chunk"
    /\ fed = 2
    /\ source[1] = 10
    /\ inputBuffer # <<>>
    /\ inputBuffer[Len(inputBuffer)].span = Span(Cursor(1, 0, 1), Cursor(2, 1, 1))
    /\ counters = Cursor(2, 1, 1)

\* ------------------------------------------------------ cancellation
\* a step that reads an input batch from the upstream
ReadsInput == phase = "await" /\ phase' # "await" /\ lastStep'.op \in {"chunk", "yield cancelled"}

\* a step that starts a coroutine: generator = parser()
StartsCoroutine == ~state.active /\ state'.active

\* C29: after the consumer has cancelled the readable side, the stage delivers no
\* further output batch (the results sitting in outputBuffer included), starts no
\* further coroutine and reads no further input batch.
C29_Cancellation ==
    [][cancelled => (emitted' = emitted /\ ~StartsCoroutine /\ ~ReadsInput)]_vars

\* the part that holds: after the cancellation no batch is delivered
C29_NothingDelivered ==
    [][cancelled => emitted' = emitted]_vars

\* what the stage does when the consumer cancels while the transform body waits for
\* input: it reads the next batch, starts a coroutine and commits a token
C29_Observed ==
    /\ parser = "token"
    /\ cancelled
    /\ emitted = <<>>
    /\ fed > 0
    /\ Len(commits) = 1
    /\ Len(outputBuffer) = 1
    /\ state.active

\* first or furthest is about to raise after every one of its branches failed
RaisesAfterAllFailed ==
    /\ (AtPosition("firstFinal") \/ AtPosition("furthestFinal"))
    /\ \A i \in 1..Len(Trail.done) : ~Trail.done[i].ok

\* C30 as stated: when first or furthest raises because every branch failed
\* recoverably, the cursor is back at the position at which the combinator was entered
\* at the moment the failure is raised.
C30_RestoredToEntry ==
    [][RaisesAfterAllFailed => cursor' = Trail.start]_vars

\* C30 amended: when first or furthest raises because every branch failed recoverably,
\* the error is raised with the cursor at the position at which the reported branch
\* failed, the one that failed furthest (the lowest-index one among equals); between
\* the branches the cursor had been put back to the entry position.
C30_CursorAtReportedFailure ==
    [][/\ (AtPosition("firstRewind") \/ AtPosition("furthestFinally")
            => cursor' = Trail.start)
       /\ (RaisesAfterAllFailed =>
            LET w == Winner(Trail.done, 1..Len(Trail.done))
            IN  /\ Len(Trail.done) = Top(state.generator).n
                /\ lastStep'.note.err.index + 1 = w
                /\ lastStep'.command.args = <<Trail.done[w].at>>
                /\ cursor' = Trail.done[w].at)]_vars

\* furthest has raised after all its branches failed, the furthest of them one item
\* after the position at which furthest was entered
C30_Witness ==
    /\ parser = "comb"
    /\ lastStep.op = "position"
    /\ lastStep.pc = "furthestFinal"
    /\ lastStep.note.err.by = "furthest"
    /\ lastStep.cursor = 0
    /\ cursor = 1
    /\ lastStep.answer = "throw"

\* ------------------------------------------------------ SyntaxParser
\* C31: after a Cursor command that sets the cursor to c, the Peek or Consume the same
\* generator yields next is answered with buffer[c], null only past the end of the
\* buffer.
C31_RewindReRead ==
    parser = "SyntaxParser" =>
        \A i \in 1..(Len(window) - 1) :
            (/\ window[i].kind = CommandKind.Cursor
             /\ window[i].data # <<>>
             /\ window[i + 1].pc = window[i].pc + 1
             /\ window[i + 1].kind # CommandKind.Cursor)
            => LET c == window[i].data[1]
                   buffer == window[i + 1].buffer
               IN  window[i + 1].result = IF c < Len(buffer) THEN buffer[c + 1] ELSE NullToken

\* a generator that consumed one token, went back to cursor 0 and peeked was handed
\* the token after the one it had consumed
C31_Observed ==
    /\ parser = "SyntaxParser"
    /\ source = <<1, 2>>
    /\ Len(window) >= 3
    /\ window[1].kind = CommandKind.Consume /\ window[1].result = 1
    /\ window[2].kind = CommandKind.Cursor /\ window[2].data = <<0>>
    /\ window[3].kind = CommandKind.Peek /\ window[3].result = 2

\* ------------------------------------------------------ TokenParser across chunks
\* the tokens of the source handed to TokenParser.parse in one call
InOneCall == parse(TokenParser(0, 0, 0, NoState), source, 0, FALSE, <<>>)

\* C32: for a source fed through TokenParserStream in several chunks every token has
\* the span it has when the source is fed in one chunk, and each token begins where
\* the token before it ends.
C32_SpansAcrossChunks ==
    (parser = "TokenParser" /\ phase = "closed" /\ outcome = Done) =>
        /\ Tokens = InOneCall.tokens
        /\ \A i \in 1..(Len(Tokens) - 1) : Tokens[i + 1].span.begin = Tokens[i].span.end

\* a+ arrives as the chunks "a" and "+": the counters were put back to 0 after the
\* first chunk, a spans 0..0 and + begins at 0 again
C32_Observed ==
    /\ parser = "TokenParser" /\ run = "pieces" /\ phase = "closed"
    /\ source = <<"a", "+">>
    /\ outcome = Done
    /\ PayloadsOf(Tokens) = <<<<"a">>, <<"+">>>>
    /\ InOneCall.tokens[1].span.end.position = 1
    /\ Tokens[1].span.begin.position = 0 /\ Tokens[1].span.end.position = 0
    /\ Tokens[2].span.begin.position = 0 /\ Tokens[2].span.end.position = 1

\* ------------------------------------------------------ TokenParser at the end of input
\* the stream has ended after the final call of TokenParser.parse was made (no chunk was
\* empty, so flush had a string to parse)
Flushed ==
    /\ parser = "TokenParser" /\ phase = "closed"
    /\ run = "pieces" /\ source # <<>>
    /\ lastStep.op = "flush"
    /\ inputBuffer = <<>>

\* the payload is text of the source
InSource(payload) ==
    \E k \in 0..(Len(source) - Len(payload)) : SubSeq(source, k + 1, k + Len(payload)) = payload

\* C33: after the final call of TokenParser.parse no token is left in progress (it has
\* been emitted, or an error has been raised), and no emitted or pending payload holds
\* text that is not in the source.
C33_EndOfInput ==
    parser = "TokenParser" =>
        /\ (Flushed /\ outcome = Done => ~state.state.active)
        /\ \A i \in 1..Len(Tokens) : InSource(Tokens[i].payload)
        /\ (state.state.active => InSource(state.state.payload))

\* //a in one chunk: the line comment has consumed the end of input, its payload ends
\* in the text null, and it is still in progress when the stream has ended
C33_Observed ==
    /\ Flushed
    /\ run = "pieces"
    /\ source = <<"/", "/", "a">>
    /\ outcome = Done
    /\ Tokens = <<>>
    /\ state.state.active
    /\ state.state.payload = <<"/", "/", "a", "n", "u", "l", "l">>

\* ------------------------------------------------------ line terminators and identifiers
\* U+000A, U+000D, U+2028, U+2029
LineTerminatorCharacters == {"\n", "\r", LS, PS}

\* the characters of the first n tokens
RECURSIVE PayloadLength(_, _)
PayloadLength(tokens, n) ==
    IF n = 0 THEN 0 ELSE PayloadLength(tokens, n - 1) + Len(tokens[n].payload)

\* where in the source the i-th emitted token begins (the first character is at 1)
BeginOf(i) == PayloadLength(Tokens, i - 1) + 1

\* source[b..e] are line terminators and no line terminator follows them
ToEndOfRun(b, e) ==
    /\ b <= e
    /\ \A k \in b..e : source[k] \in LineTerminatorCharacters
    /\ (e < Len(source) => source[e + 1] \notin LineTerminatorCharacters)

\* source[b..e] is a maximal run of line terminators
MaximalRun(b, e) ==
    /\ ToEndOfRun(b, e)
    /\ (b > 1 => source[b - 1] \notin LineTerminatorCharacters)

\* the i-th emitted token is a LineTerminator token that is source[b..e]
IsRunToken(i, b, e) ==
    /\ Tokens[i].kind = TokenKind.LineTerminator
    /\ BeginOf(i) = b
    /\ Tokens[i].payload = SubSeq(source, b, e)

\* C39 as stated: every maximal run of line terminators, whichever of them it starts
\* with, is emitted as exactly one LineTerminator token covering the whole run.
C39_EveryRunOneToken ==
    (Flushed /\ outcome = Done) =>
        \A b \in 1..Len(source) : \A e \in b..Len(source) :
            MaximalRun(b, e) => \E i \in 1..Len(Tokens) : IsRunToken(i, b, e)

\* C39 amended: the emitted tokens are the source from its beginning on; a token that
\* begins with U+000A or U+000D is a LineTerminator token, and a LineTerminator token
\* begins with one of the two and goes on to the end of the run of line terminators;
\* a token that begins with U+2028 or U+2029 is a Whitespace token; a maximal run that
\* begins with U+000A or U+000D begins a token.
C39_LineTerminatorRuns ==
    parser = "TokenParser" =>
        /\ \A i \in 1..Len(Tokens) :
            LET b == BeginOf(i)
                e == b + Len(Tokens[i].payload) - 1
            IN  /\ Tokens[i].payload # <<>>
                /\ e <= Len(source)
                /\ Tokens[i].payload = SubSeq(source, b, e)
                /\ (source[b] \in {"\n", "\r"} => Tokens[i].kind = TokenKind.LineTerminator)
                /\ (source[b] \in {LS, PS} => Tokens[i].kind = TokenKind.Whitespace)
                /\ (Tokens[i].kind = TokenKind.LineTerminator =>
                        /\ source[b] \in {"\n", "\r"}
                        /\ ToEndOfRun(b, e))
        /\ \A b \in 1..PayloadLength(Tokens, Len(Tokens)) :
                (source[b] \in {"\n", "\r"} /\ \E e \in b..Len(source) : MaximalRun(b, e))
                    => \E i \in 1..Len(Tokens) : BeginOf(i) = b

\* U+2028 LF U+2028: a Whitespace token for the first U+2028, one LineTerminator token
\* for LF and the U+2028 after it
C39_Witness ==
    /\ Flushed /\ outcome = Done
    /\ source = <<LS, "\n", LS>>
    /\ Len(Tokens) = 2
    /\ Tokens[1].kind = TokenKind.Whitespace /\ Tokens[1].payload = <<LS>>
    /\ Tokens[2].kind = TokenKind.LineTerminator /\ Tokens[2].payload = <<"\n", LS>>

\* $, _ and the letters; and what may follow them
IdentifierStarts == {"$", "_", "a", "b"}
IdentifierParts == IdentifierStarts \cup {"1", ZWNJ, ZWJ}

\* C40: every Identifier token begins with $, _ or a letter and continues only with
\* $, _, letters, digits, ZWNJ or ZWJ; neither a backslash nor ZWNJ or ZWJ begins one.
C40_IdentifierAlphabet ==
    parser = "TokenParser" =>
        \A i \in 1..Len(Tokens) :
            Tokens[i].kind = TokenKind.Identifier =>
                /\ Tokens[i].payload[1] \in IdentifierStarts
                /\ \A k \in 2..Len(Tokens[i].payload) : Tokens[i].payload[k] \in IdentifierParts

\* a backslash and a letter are one Identifier token
C40_Observed ==
    /\ Flushed /\ outcome = Done
    /\ source = <<"\\", "a">>
    /\ Len(Tokens) = 1
    /\ Tokens[1].kind = TokenKind.Identifier
    /\ Tokens[1].payload = source

\* ------------------------------------------------------ results before an error
\* the stream has reported an error: one raised by a coroutine (not an
\* EndOfParserStream), by the engine, or by the remainder check
EndedInError ==
    /\ phase = "closed"
    /\ ~cancelled
    /\ outcome # Done
    /\ ~IsEndOfParserStream(outcome)

\* C34: when the stream reports an error, every result committed before has been
\* delivered downstream, in the order of the commits: none is lost.
C34_ResultsBeforeError ==
    (parser \in {"generic", "comb", "token", "statement"} /\ EndedInError) =>
        Flatten(emitted) = CommitValues

\* a coroutine raised an error while a committed result was waiting in outputBuffer;
\* the finally clause delivered it before the error
C34_Witness ==
    /\ parser = "generic"
    /\ EndedInError
    /\ outcome = PlainError("error")
    /\ lastStep.op = "finally"
    /\ Len(commits) > 0
    /\ Len(outputBuffer) > 0
    /\ emitted[Len(emitted)] = outputBuffer

C36_Termination ==
    (parser \in {"token", "statement"} /\ phase \in {"drain", "processNull", "finally"})
        ~> (phase = "closed")

\* the syntactic stage has finished a source of three tokens that ends in an
\* identifier: the statement was committed in the end-of-input loop, where the
\* coroutine looking for a suffix was given the end of the input
C36_Witness ==
    /\ parser = "statement"
    /\ phase = "closed"
    /\ fed = Len(source)
    /\ Len(source) = 3
    /\ source[3].kind = "IdentifierToken"
    /\ Len(commits) = 1
    /\ outcome = Done
    /\ lastStep.op = "finally"
    /\ ~state.active

\* the tokens a node retains, read from left to right; an absent comma or semicolon
\* (null) retains nothing
RECURSIVE TokensIn(_)
RECURSIVE TokensInAll(_)
TokensIn(node) ==
    CASE node = NullResult -> <<>>
      [] node.kind \in {"IdentifierNode", "StringLiteralNode"} -> <<node.token>>
      [] node.kind = "MemberExpressionNode" ->
            TokensIn(node.object) \o <<node.dotToken, node.identifierToken>>
      [] node.kind = "ArgumentNode" ->
            TokensIn(node.expressionNode) \o TokensIn(node.commaToken)
      [] node.kind = "CallExpressionNode" ->
            TokensIn(node.calleeExpressionNode) \o <<node.leftParenthesisToken>>
                \o TokensInAll(node.argumentNodes) \o <<node.rightParenthesisToken>>
      [] node.kind = "ExpressionStatementNode" ->
            TokensIn(node.expression) \o TokensIn(node.semicolonToken)
      [] OTHER -> <<node>>
TokensInAll(nodes) ==
    IF nodes = <<>> THEN <<>> ELSE TokensIn(Head(nodes)) \o TokensInAll(Tail(nodes))

\* C37: the tokens retained in a committed statement node, read from left to right,
\* are exactly the tokens spliced off inputBuffer at that commit, in the same order;
\* over all commits they are a prefix of the tokens fed, so that no consumed token is
\* dropped and none belongs to two nodes
C37_NodeTokens ==
    parser = "statement" =>
        /\ \A i \in 1..Len(commits) : TokensIn(commits[i].value) = commits[i].items
        /\ TokensInAll(CommitValues) = SubSeq(source, 1, Len(CommitItems))

\* a call with a member callee and one argument has been committed as one statement
\* of six tokens
C37_Witness ==
    /\ parser = "statement"
    /\ Len(commits) = 1
    /\ commits[1].value.expression.kind = "CallExpressionNode"
    /\ commits[1].value.expression.calleeExpressionNode.kind = "MemberExpressionNode"
    /\ Len(commits[1].value.expression.argumentNodes) = 1
    /\ Len(commits[1].items) = 6

\* the rule set the transitions of the spec give after a sequence of tokens: the gap
\* rules after TemplateLiteralStart or TemplateLiteralMiddle, the default rules at
\* the start and after TemplateLiteralEnd, the rules before any other token
RECURSIVE ModeAfter(_)
ModeAfter(tokens) ==
    IF tokens = <<>>
    THEN "default"
    ELSE LET type == tokens[Len(tokens)].type
         IN  CASE type \in {"TemplateLiteralStart", "TemplateLiteralMiddle"} -> "gap"
               [] type = "TemplateLiteralEnd" -> "default"
               [] OTHER -> ModeAfter(SubSeq(tokens, 1, Len(tokens) - 1))

ModeOf(activeRegExps) ==
    CASE activeRegExps = defaultRegExps -> "default"
      [] activeRegExps = templateLiteralRegExps -> "gap"
      [] OTHER -> "neither"

\* C38: the decoder starts with the default rules; each token is matched with the
\* rules that the tokens emitted before it give (gap after TemplateLiteralStart or
\* TemplateLiteralMiddle, default after TemplateLiteralEnd, unchanged after any
\* other token), and so is the decoder whenever it looks for the next token or
\* waits for the next call; TemplateLiteralMiddle and TemplateLiteralEnd tokens come
\* from the gap rules only, and where a gap rule matches, its token is the one made
C38_TemplateGapMode ==
    parser = "TokenDecoder" =>
        /\ Len(window) = Len(emitted)
        /\ emitted = <<>> => ModeOf(state.activeRegExps) = "default"
        /\ \A i \in 1..Len(emitted) :
            /\ ModeOf(window[i].activeRegExps) = ModeAfter(SubSeq(emitted, 1, i - 1))
            /\ emitted[i].type \in {"TemplateLiteralMiddle", "TemplateLiteralEnd"}
                    => ModeOf(window[i].activeRegExps) = "gap"
            /\ ModeOf(window[i].activeRegExps) = "gap" =>
                /\ exec("TemplateLiteralMiddle", window[i].sourceCodeView) > 0
                        => emitted[i].type = "TemplateLiteralMiddle"
                /\ (/\ exec("TemplateLiteralMiddle", window[i].sourceCodeView) = 0
                    /\ exec("TemplateLiteralEnd", window[i].sourceCodeView) > 0)
                        => emitted[i].type = "TemplateLiteralEnd"
        /\ phase \in {"loop", "await"} => ModeOf(state.activeRegExps) = ModeAfter(emitted)

\* a template with two substitutions has been decoded in more than one call as
\* start, middle and end, and the brace after it as a punctuator of the default rules
C38_Witness ==
    /\ parser = "TokenDecoder"
    /\ phase = "await"
    /\ fed = Len(source)
    /\ Len(emitted) = 4
    /\ emitted[1].type = "TemplateLiteralStart"
    /\ emitted[2].type = "TemplateLiteralMiddle" /\ emitted[2].payload[1] = "}"
    /\ emitted[3].type = "TemplateLiteralEnd"
    /\ emitted[4].type = "Punctuator" /\ emitted[4].payload = <<"}">>
    /\ Len(inputBuffer) < Len(source)
    /\ ModeOf(state.activeRegExps) = "default"
====
